---- MODULE Spec2Model ----
(***************************************************************************)
(* StockGPT command line tool: the technical-indicator engine              *)
(* (analysis.py), the multi-symbol comparison (comparison.py) and the      *)
(* driver with its insight cache (stockgpt.py).                            *)
(*                                                                         *)
(* Numbers.  The code computes in IEEE doubles through pandas/numpy.  The  *)
(* model computes the same expressions exactly:                            *)
(*   [k |-> "nan"]                      NaN                                *)
(*   [k |-> "inf", s |-> 1 or -1]       +inf / -inf                        *)
(*   [k |-> "rat", n, d]                the rational n/d, reduced, d > 0   *)
(*   [k |-> "surd", n, d, c, rn, rd]    n/d + c*sqrt(rn/rd), rn/rd > 0     *)
(*   [k |-> "sqrt", rn, rd]             sqrt(rn/rd) > 0, rn, rd big        *)
(*   [k |-> "scaled", s, m, b, e]       s*m/b^e, m big and nonzero         *)
(*   [k |-> "dbl", s, m, e]            the double s*m*2^e (see below)     *)
(* Zero is always [k |-> "rat", n |-> 0, d |-> 1].  Big naturals are       *)
(* little-endian sequences of limbs below LimbBase with no leading zero    *)
(* limb, so that the recursive moving averages and the variance of the     *)
(* percentage returns keep every digit.                                    *)
(***************************************************************************)
EXTENDS Integers, Sequences, FiniteSets, TLC

(***************************************************************************)
(* Exact arithmetic: small rationals                                       *)
(***************************************************************************)
Abs(x) == IF x < 0 THEN -x ELSE x

Sign(x) == IF x < 0 THEN -1 ELSE IF x = 0 THEN 0 ELSE 1

RECURSIVE Gcd(_, _)
Gcd(a, b) == IF b = 0 THEN a ELSE Gcd(b, a % b)

NaN == [k |-> "nan"]

Inf(s) == [k |-> "inf", s |-> s]

\* n/d for d /= 0, reduced, with a positive denominator
Rat(n, d) ==
    LET g == Gcd(Abs(n), Abs(d))
        sg == IF d < 0 THEN -1 ELSE 1
    IN  [k |-> "rat", n |-> sg * (n \div g), d |-> sg * (d \div g)]

Zero == Rat(0, 1)

IsNaN(x) == x.k = "nan"

IsFinite(x) == x.k \notin {"nan", "inf"}

RNeg(x) ==
    CASE x.k = "rat" -> Rat(-x.n, x.d)
      [] x.k = "inf" -> Inf(-x.s)
      [] OTHER -> NaN

\* float addition, subtraction, multiplication and division on rationals and
\* infinities, as numpy computes them: NaN propagates, inf - inf and 0 * inf
\* and 0/0 and inf/inf are NaN, x/0 is +-inf, and nothing raises
RAdd(x, y) ==
    CASE x.k = "rat" /\ y.k = "rat" -> Rat(x.n * y.d + y.n * x.d, x.d * y.d)
      [] x.k = "inf" /\ y.k = "inf" -> IF x.s = y.s THEN x ELSE NaN
      [] x.k = "inf" /\ y.k = "rat" -> x
      [] x.k = "rat" /\ y.k = "inf" -> y
      [] OTHER -> NaN

RSub(x, y) == RAdd(x, RNeg(y))

RMul(x, y) ==
    CASE x.k = "rat" /\ y.k = "rat" -> Rat(x.n * y.n, x.d * y.d)
      [] x.k = "inf" /\ y.k = "inf" -> Inf(x.s * y.s)
      [] x.k = "inf" /\ y.k = "rat" -> IF y.n = 0 THEN NaN ELSE Inf(x.s * Sign(y.n))
      [] x.k = "rat" /\ y.k = "inf" -> IF x.n = 0 THEN NaN ELSE Inf(y.s * Sign(x.n))
      [] OTHER -> NaN

RDiv(x, y) ==
    CASE x.k = "rat" /\ y.k = "rat" ->
            IF y.n = 0 THEN (IF x.n = 0 THEN NaN ELSE Inf(Sign(x.n)))
            ELSE Rat(x.n * y.d, x.d * y.n)
      [] x.k = "inf" /\ y.k = "rat" -> Inf(x.s * (IF y.n < 0 THEN -1 ELSE 1))
      [] x.k = "rat" /\ y.k = "inf" -> Zero
      [] OTHER -> NaN

\* the float comparisons a < b and a > b: False as soon as a NaN is involved
RLt(x, y) ==
    CASE x.k = "nan" \/ y.k = "nan" -> FALSE
      [] x.k = "inf" /\ y.k = "inf" -> x.s < y.s
      [] x.k = "inf" -> x.s < 0
      [] y.k = "inf" -> y.s > 0
      [] OTHER -> x.n * y.d < y.n * x.d

RGt(x, y) == RLt(y, x)

RLe(x, y) == RLt(x, y) \/ (x.k /= "nan" /\ x = y)

(***************************************************************************)
(* Exact arithmetic: big naturals.  Every loop over limbs or bars is       *)
(* folded by halving the range, the left half first and its result handed  *)
(* to the right half, so that the evaluation order is the loop's and the   *)
(* nesting stays logarithmic.                                              *)
(***************************************************************************)
LimbBase == 10 * 100

\* a sequence given by a rule, with every element worked out here (and not
\* again at each use)
Tabulate(f) == IF f = <<>> THEN <<>> ELSE f

\* the value y, with x worked out first: the statements of the code run in
\* order, each on the finished result of the one before
After(x, y) == IF x = x THEN y ELSE y

SetMax(S) == CHOOSE x \in S : \A y \in S : y <= x

BTrim(a) ==
    LET nz == {i \in 1..Len(a) : a[i] /= 0}
    IN  IF nz = {} THEN <<>> ELSE SubSeq(a, 1, SetMax(nz))

Limb(a, i) == IF i <= Len(a) THEN a[i] ELSE 0

\* carry propagation over the limbs v[lo..hi] (each any integer), carry cin in
RECURSIVE CarryRange(_, _, _, _)
CarryRange(v, lo, hi, cin) ==
    IF lo = hi
    THEN LET t == v[lo] + cin
             r == t % LimbBase
         IN  [d |-> <<r>>, c |-> (t - r) \div LimbBase]
    ELSE LET mid == (lo + hi) \div 2
             L == CarryRange(v, lo, mid, cin)
             H == CarryRange(v, mid + 1, hi, L.c)
         IN  [d |-> L.d \o H.d, c |-> H.c]

\* the big natural with the limbs v, which may each exceed the base (v holds
\* enough zero limbs at the top for the last carry)
Norm(v) == IF Tabulate(v) = <<>> THEN <<>> ELSE BTrim(CarryRange(v, 1, Len(v), 0).d)

BigOf(x) == Norm(<<x, 0, 0, 0>>)

MaxOf(x, y) == IF x > y THEN x ELSE y

\* a * k for a small k >= 0
BMulS(a, k) == Norm([i \in 1..(Len(a) + 3) |-> Limb(a, i) * k])

\* long division of the limbs a[lo..hi] by a small k > 0, top limb first, with
\* the remainder rem coming in from above
RECURSIVE DivRange(_, _, _, _, _)
DivRange(a, k, lo, hi, rem) ==
    IF lo = hi
    THEN LET cur == rem * LimbBase + a[lo]
         IN  [q |-> <<cur \div k>>, r |-> cur % k]
    ELSE LET mid == (lo + hi) \div 2
             H == DivRange(a, k, mid + 1, hi, rem)
             L == DivRange(a, k, lo, mid, H.r)
         IN  After(H, [q |-> L.q \o H.q, r |-> L.r])

\* a \div k for a small k > 0
BDivS(a, k) == IF a = <<>> THEN <<>> ELSE BTrim(DivRange(a, k, 1, Len(a), 0).q)

RECURSIVE ConvSum(_, _, _, _, _)
ConvSum(a, b, k, lo, hi) ==
    IF lo > hi THEN 0
    ELSE IF lo = hi THEN a[lo] * Limb(b, k - lo + 1)
    ELSE LET mid == (lo + hi) \div 2
         IN  ConvSum(a, b, k, lo, mid) + ConvSum(a, b, k, mid + 1, hi)

\* limb k of the product a * b before carries
ConvAt(a, b, k) ==
    ConvSum(a, b, k, MaxOf(1, k - Len(b) + 1), IF k < Len(a) THEN k ELSE Len(a))

BMul(a, b) ==
    IF a = <<>> \/ b = <<>> THEN <<>>
    ELSE Norm([k \in 1..(Len(a) + Len(b) + 2) |-> ConvAt(a, b, k)])

\* signed big integers [s |-> sign, m |-> magnitude]
SBig(s, m) == IF m = <<>> \/ s = 0 THEN [s |-> 0, m |-> <<>>] ELSE [s |-> s, m |-> m]

\* the signed big integer with the signed limbs v (enough zero limbs at the top)
SNorm(v) ==
    LET r == CarryRange(Tabulate(v), 1, Len(v), 0)
    IN  IF r.c >= 0 THEN SBig(1, BTrim(r.d))
        ELSE SBig(-1, Norm([i \in 1..Len(v) |-> -v[i]]))

SOf(x) == SBig(Sign(x), BigOf(Abs(x)))

SAdd(x, y) ==
    IF x.s = 0 THEN y
    ELSE IF y.s = 0 THEN x
    ELSE SNorm([i \in 1..(MaxOf(Len(x.m), Len(y.m)) + 1) |->
                   x.s * Limb(x.m, i) + y.s * Limb(y.m, i)])

SNeg(x) == SBig(-x.s, x.m)

SSub(x, y) == SAdd(x, SNeg(y))

SMulS(x, k) == SBig(x.s * Sign(k), BMulS(x.m, Abs(k)))

SMul(x, y) == SBig(x.s * y.s, BMul(x.m, y.m))

\* x * a * k + y * l for signed big x, y, a big natural a and small k, l
SMulAdd(x, a, k, y, l) ==
    SNorm([i \in 1..(MaxOf(Len(x.m) + Len(a), Len(y.m)) + 3) |->
              k * x.s * ConvAt(x.m, a, i) + l * y.s * Limb(y.m, i)])

\* x * a - y * b for signed big x, y and big naturals a, b
SMulSub(x, a, y, b) ==
    SNorm([i \in 1..(MaxOf(Len(x.m) + Len(a), Len(y.m) + Len(b)) + 2) |->
              x.s * ConvAt(x.m, a, i) - y.s * ConvAt(y.m, b, i)])

\* the sum of f[lo..hi], signed big integers
RECURSIVE SSum(_, _, _)
SSum(f, lo, hi) ==
    IF lo > hi THEN SOf(0)
    ELSE IF lo = hi THEN f[lo]
    ELSE LET mid == (lo + hi) \div 2 IN SAdd(SSum(f, lo, mid), SSum(f, mid + 1, hi))

\* s*m/b^e as a float value
Scaled(x, b, e) ==
    IF x.s = 0 THEN Zero ELSE [k |-> "scaled", s |-> x.s, m |-> x.m, b |-> b, e |-> e]

(***************************************************************************)
(* IEEE doubles, for the one field the checks compare for equality with a  *)
(* decimal number: price_change_pct.  A finite nonzero double is           *)
(* [k |-> "dbl", s, m, e] with sign s, a big natural m of exactly 53 bits  *)
(* and the value s * m * 2^e; zero is [k |-> "dbl", s |-> 0, m |-> <<>>,   *)
(* e |-> 0].  Every operation rounds its exact result to the nearest       *)
(* double, ties to the even mantissa (exponent range is not an issue for   *)
(* prices).                                                                *)
(***************************************************************************)
RECURSIVE Pow2(_)
Pow2(n) ==
    IF n = 0 THEN BigOf(1)
    ELSE IF n % 2 = 1 THEN BMulS(Pow2(n - 1), 2)
    ELSE BMul(Pow2(n \div 2), Pow2(n \div 2))

\* a < b for big naturals
BLess(a, b) ==
    \/ Len(a) < Len(b)
    \/ /\ Len(a) = Len(b)
       /\ \E i \in 1..Len(a) : a[i] < b[i] /\ \A j \in (i + 1)..Len(a) : a[j] = b[j]

TwoTo52 == Pow2(52)

TwoTo53 == Pow2(53)

DblZero == [k |-> "dbl", s |-> 0, m |-> <<>>, e |-> 0]

\* N / d * 2^e with the quotient brought to 53 bits: N doubled (sixteen times
\* at once while that stays below 2^53) while the quotient is below 2^52, d
\* doubled while it is 2^53 or more (d stays small: the factors are small)
RECURSIVE ScaleUp(_, _, _)
ScaleUp(N, d, e) ==
    IF BLess(BMulS(BDivS(N, d), 256 * 256), TwoTo53) THEN ScaleUp(BMulS(N, 256 * 256), d, e - 16)
    ELSE IF BLess(BDivS(N, d), TwoTo52) THEN ScaleUp(BMulS(N, 2), d, e - 1)
    ELSE [N |-> N, d |-> d, e |-> e]

RECURSIVE ScaleDown(_, _, _)
ScaleDown(N, d, e) ==
    IF BLess(BDivS(N, d), TwoTo53) THEN [N |-> N, d |-> d, e |-> e]
    ELSE ScaleDown(N, 2 * d, e + 1)

\* the quotient and remainder of the scaled division, rounded half to even
RoundScaled(s, a, parts) ==
    LET Q == BTrim(parts.q)
        up == 2 * parts.r > a.d \/ (2 * parts.r = a.d /\ Q[1] % 2 = 1)
        Q1 == IF up THEN Norm([i \in 1..(Len(Q) + 1) |-> Limb(Q, i) + (IF i = 1 THEN 1 ELSE 0)])
              ELSE Q
    IN  IF Q1 = TwoTo53 THEN [k |-> "dbl", s |-> s, m |-> TwoTo52, e |-> a.e + 1]
        ELSE [k |-> "dbl", s |-> s, m |-> Q1, e |-> a.e]

DivideScaled(s, a) == RoundScaled(s, a, DivRange(a.N, a.d, 1, Len(a.N), 0))

ScaleToMantissa(up) == ScaleDown(up.N, up.d, up.e)

\* the double nearest to s * N / d * 2^e, for a big natural N and a small d > 0
RoundToDouble(s, N, d, e) ==
    IF N = <<>> \/ s = 0 THEN DblZero
    ELSE DivideScaled(s, ScaleToMantissa(ScaleUp(N, d, e)))

\* float(a) / float(b) for whole numbers a and b /= 0
DblDiv(a, b) == RoundToDouble(Sign(a) * Sign(b), BigOf(Abs(a)), Abs(b), 0)

\* the double of a whole number
DblOf(a) == DblDiv(a, 1)

\* the signed big integer x / 2^e of a double x, for e <= x.e
DblUnits(x, e) == SBig(x.s, BMul(x.m, Pow2(x.e - e)))

\* x - c for a double x and a whole number c
DblSubInt(x, c) ==
    LET e == IF x.e < 0 THEN x.e ELSE 0
        diff == SSub(DblUnits(x, e), SMul(SOf(c), SBig(1, Pow2(-e))))
    IN  RoundToDouble(diff.s, diff.m, 1, e)

\* x * c for a double x and a whole number c
DblMulInt(x, c) == RoundToDouble(x.s * Sign(c), BMulS(x.m, Abs(c)), 1, x.e)

\* x < y for doubles
DblLt(x, y) ==
    LET below(a, b) == a.e < b.e \/ (a.e = b.e /\ BLess(a.m, b.m))
    IN  IF x.s /= y.s THEN x.s < y.s
        ELSE IF x.s > 0 THEN below(x, y)
        ELSE IF x.s < 0 THEN below(y, x)
        ELSE FALSE

\* x < y for float values: two doubles, or two of the exact values (a column
\* holds the one kind or the other), or a NaN or an infinity on a side
FLt(x, y) ==
    CASE x.k = "nan" \/ y.k = "nan" -> FALSE
      [] x.k = "dbl" /\ y.k = "dbl" -> DblLt(x, y)
      [] x.k = "dbl" /\ y.k = "inf" -> y.s > 0
      [] x.k = "inf" /\ y.k = "dbl" -> x.s < 0
      [] OTHER -> RLt(x, y)

(***************************************************************************)
(* Program constants                                                       *)
(***************************************************************************)
MacdFastSpan == 12

MacdSlowSpan == 26

MacdSignalSpan == 9

RsiWindow == 14

StochWindow == 14

StochSmooth == 3

BollingerWindow == 20

BollingerWidth == 2

TradingDays == 252

(***************************************************************************)
(* pandas primitives on a column (a sequence of float values, oldest bar   *)
(* first).  A data frame is a record of integer columns Close, High, Low,  *)
(* Volume (prices in cents, so whole numbers).                             *)
(***************************************************************************)
Col(xs) == [i \in 1..Len(xs) |-> Rat(xs[i], 1)]

\* Series.iloc[-1]: the code raises IndexError on an empty column
Last(xs) == xs[Len(xs)]

RECURSIVE IntSum(_, _, _)
IntSum(xs, lo, hi) ==
    IF lo > hi THEN 0
    ELSE IF lo = hi THEN xs[lo]
    ELSE LET mid == (lo + hi) \div 2 IN IntSum(xs, lo, mid) + IntSum(xs, mid + 1, hi)

RECURSIVE FSum(_, _, _)
FSum(xs, lo, hi) ==
    IF lo > hi THEN Zero
    ELSE IF lo = hi THEN xs[lo]
    ELSE LET mid == (lo + hi) \div 2 IN RAdd(FSum(xs, lo, mid), FSum(xs, mid + 1, hi))

\* Series.mean() of an integer column: NaN when it is empty
Mean(xs) == IF Len(xs) = 0 THEN NaN ELSE Rat(IntSum(xs, 1, Len(xs)), Len(xs))

\* Series.diff(): NaN at the first bar
Diff(xs) == [i \in 1..Len(xs) |-> IF i = 1 THEN NaN ELSE Rat(xs[i] - xs[i - 1], 1)]

\* Series.pct_change() * 100: NaN at the first bar
PctChange(xs) ==
    [i \in 1..Len(xs) |->
        IF i = 1 THEN NaN
        ELSE RMul(RSub(RDiv(Rat(xs[i], 1), Rat(xs[i - 1], 1)), Rat(1, 1)), Rat(100, 1))]

\* Series.max() / Series.min(): NaN values are skipped, NaN when nothing is left
FMax(xs) ==
    LET valid == {xs[i] : i \in {j \in 1..Len(xs) : ~IsNaN(xs[j])}}
    IN  IF valid = {} THEN NaN ELSE CHOOSE x \in valid : \A y \in valid : ~RGt(y, x)

FMin(xs) ==
    LET valid == {xs[i] : i \in {j \in 1..Len(xs) : ~IsNaN(xs[j])}}
    IN  IF valid = {} THEN NaN ELSE CHOOSE x \in valid : \A y \in valid : ~RLt(y, x)

\* Series.where(cond, 0): the value where cond holds, 0 elsewhere (NaN > 0 and
\* NaN < 0 are False, so the first bar's NaN becomes 0)
WherePositive(xs) == [i \in 1..Len(xs) |-> IF RGt(xs[i], Zero) THEN xs[i] ELSE Zero]

WhereNegative(xs) == [i \in 1..Len(xs) |-> IF RLt(xs[i], Zero) THEN xs[i] ELSE Zero]

Negate(xs) == [i \in 1..Len(xs) |-> RNeg(xs[i])]

AllFinite(xs, lo, hi) == \A j \in lo..hi : IsFinite(xs[j])

\* Series.rolling(window).mean() at bar i: min_periods is the window, so the
\* value is NaN before bar `window` and whenever the window holds a NaN;
\* pandas turns +-inf into NaN before rolling
RollingMeanAt(xs, window, i) ==
    IF i < window \/ ~AllFinite(xs, i - window + 1, i) THEN NaN
    ELSE RDiv(FSum(xs, i - window + 1, i), Rat(window, 1))

RollingMean(xs, window) == [i \in 1..Len(xs) |-> RollingMeanAt(xs, window, i)]

IntMin(xs, lo, hi) == CHOOSE v \in {xs[j] : j \in lo..hi} : \A j \in lo..hi : v <= xs[j]

IntMax(xs, lo, hi) == CHOOSE v \in {xs[j] : j \in lo..hi} : \A j \in lo..hi : v >= xs[j]

\* Series.rolling(window).min() / .max() of an integer column
RollingMin(xs, window) ==
    [i \in 1..Len(xs) |-> IF i < window THEN NaN ELSE Rat(IntMin(xs, i - window + 1, i), 1)]

RollingMax(xs, window) ==
    [i \in 1..Len(xs) |-> IF i < window THEN NaN ELSE Rat(IntMax(xs, i - window + 1, i), 1)]

IntSumSq(xs, lo, hi) == IntSum([j \in 1..Len(xs) |-> xs[j] * xs[j]], lo, hi)

\* the sample variance (ddof = 1) of xs[lo..hi], a rational
VarOf(xs, lo, hi) ==
    LET m == hi - lo + 1
        s1 == IntSum(xs, lo, hi)
        s2 == IntSumSq(xs, lo, hi)
    IN  Rat(m * s2 - s1 * s1, m * (m - 1))

\* mean + c * std: a rational when the variance is 0, a surd otherwise
MeanPlusStd(mean, c, var) ==
    IF var.n = 0 \/ c = 0 THEN mean
    ELSE [k |-> "surd", n |-> mean.n, d |-> mean.d, c |-> c, rn |-> var.n, rd |-> var.d]

\* the band of a window that is allowed to be partly filled (min_periods = 2)
BandAtPartial(xs, window, c, i) ==
    IF i < 2 THEN NaN
    ELSE LET lo == IF i < window THEN 1 ELSE i - window + 1
         IN  MeanPlusStd(Rat(IntSum(xs, lo, i), i - lo + 1), c, VarOf(xs, lo, i))

\* rolling(window).mean() + c * rolling(window).std() of an integer column at bar i
BandAt(xs, window, c, i) ==
    IF i < window THEN NaN
    ELSE MeanPlusStd(Rat(IntSum(xs, i - window + 1, i), window), c,
                     VarOf(xs, i - window + 1, i))

(***************************************************************************)
(* Series.ewm(span, adjust=False).mean(): e[1] = x[1] and                  *)
(* e[i] = a*x[i] + (1-a)*e[i-1] with a = 2/(span+1).  The column is given  *)
(* as signed big numerators X over the powers of a base B, x[i] =          *)
(* X[i]/B^(i-1) (B = 1 for a column of whole numbers); the result is the   *)
(* sequence of numerators E with e[i] = E[i]/(B*(span+1))^(i-1):           *)
(*   E[i] = 2*X[i]*(span+1)^(i-2) + (span-1)*B*E[i-1].                     *)
(***************************************************************************)
\* a step with the weight 1/(span+1) in place of 2/(span+1)
EwmStepHalfWeight(x, B, span, prev) ==
    [e |-> SMulAdd(x, prev.p, 1, prev.e, span * B),
     p |-> BMulS(prev.p, span + 1)]

\* one bar: prev = [e |-> E[i-1], p |-> (span+1)^(i-2)]
EwmStep(x, B, span, prev) ==
    [e |-> SMulAdd(x, prev.p, 2, prev.e, (span - 1) * B),
     p |-> BMulS(prev.p, span + 1)]

\* the steps of the bars lo..hi after prev
RECURSIVE EwmRange(_, _, _, _, _, _)
EwmRange(X, B, span, lo, hi, prev) ==
    IF lo = hi THEN <<EwmStep(X[lo], B, span, prev)>>
    ELSE LET mid == (lo + hi) \div 2
             L == EwmRange(X, B, span, lo, mid, prev)
         IN  L \o EwmRange(X, B, span, mid + 1, hi, L[Len(L)])

Ewm(X, B, span) ==
    IF Len(X) <= 1 THEN X
    ELSE LET steps == EwmRange(X, B, span, 2, Len(X), [e |-> X[1], p |-> <<1>>])
         IN  Tabulate([i \in 1..Len(X) |-> IF i = 1 THEN X[1] ELSE steps[i - 1].e])

BigCol(xs) == Tabulate([i \in 1..Len(xs) |-> SOf(xs[i])])

\* b^lo .. b^hi from prev = b^(lo-1)
RECURSIVE PowRange(_, _, _, _)
PowRange(b, lo, hi, prev) ==
    IF lo = hi THEN <<BMulS(prev, b)>>
    ELSE LET mid == (lo + hi) \div 2
             L == PowRange(b, lo, mid, prev)
         IN  L \o PowRange(b, mid + 1, hi, L[Len(L)])

\* b^0 .. b^(n-1)
Powers(b, n) == IF n <= 1 THEN <<<<1>>>> ELSE <<<<1>>>> \o PowRange(b, 1, n - 1, <<1>>)

\* exp1 - exp2 of two ewm columns over the bases b1 and b2: numerators over b1*b2
EwmDiff(E1, E2, b1, b2) ==
    LET p1 == Powers(b1, Len(E1))
        p2 == Powers(b2, Len(E1))
    IN  After(<<E1, E2, p1, p2>>,
              Tabulate([i \in 1..Len(E1) |-> SMulSub(E1[i], p2[i], E2[i], p1[i])]))

\* the MACD line of a column of closes, numerators over (fast+1)*(slow+1)
MacdLine(close) ==
    EwmDiff(Ewm(BigCol(close), 1, MacdFastSpan), Ewm(BigCol(close), 1, MacdSlowSpan),
            MacdFastSpan + 1, MacdSlowSpan + 1)

MacdBase == (MacdFastSpan + 1) * (MacdSlowSpan + 1)

SignalBase == MacdBase * (MacdSignalSpan + 1)

(***************************************************************************)
(* daily_returns.std() * sqrt(252) for daily_returns = pct_change() * 100. *)
(* std skips the NaN of the first bar and is the sample deviation (ddof =  *)
(* 1): NaN with fewer than two returns.  With D the product of the closes  *)
(* close[1..n-1], return i is R[i]/D for the whole number                  *)
(* R[i] = 100*(close[i] - close[i-1])*D/close[i-1], and with m = n-1       *)
(* returns the variance is (m*sum(R^2) - sum(R)^2) / (m*(m-1)*D^2).        *)
(***************************************************************************)
RECURSIVE BigProd(_, _, _)
BigProd(xs, lo, hi) ==
    IF lo > hi THEN <<1>>
    ELSE IF lo = hi THEN BigOf(xs[lo])
    ELSE LET mid == (lo + hi) \div 2 IN BMul(BigProd(xs, lo, mid), BigProd(xs, mid + 1, hi))

\* ddof is the divisor's correction (the variance divides by m - ddof), pct
\* the factor on the returns (100 for percent)
StdOfReturns(xs, ddof, pct) ==
    LET n == Len(xs)
        m == n - 1
        D == BigProd(xs, 1, n - 1)
        R == Tabulate([i \in 1..n |->
                 IF i = 1 THEN SOf(0)
                 ELSE SBig(Sign(xs[i] - xs[i - 1]),
                           BMulS(BDivS(D, xs[i - 1]), pct * Abs(xs[i] - xs[i - 1])))])
        s1 == After(R, SSum(R, 2, n))
        sq == After(R, Tabulate([i \in 1..n |-> SMul(R[i], R[i])]))
        s2 == After(sq, SSum(sq, 2, n))
        v == After(<<s1, s2>>, SMulSub(s2, BigOf(m), SBig(1, s1.m), s1.m))
    IN  IF m - ddof < 1 THEN NaN
        ELSE IF After(D, v).s = 0 THEN Zero
        ELSE [k |-> "sqrt", rn |-> BMulS(v.m, TradingDays),
              rd |-> BMulS(BMul(D, D), m * (m - ddof))]

\* the population deviation (numpy's default, ddof = 0) in place of pandas'
AnnualizedStdPopulation(xs) == StdOfReturns(xs, 0, 100)

\* Series.std() is the sample deviation, ddof = 1
AnnualizedStd(xs) == StdOfReturns(xs, 1, 100)

\* what a call gives back when it raises exc
Raised(exc) == [error |-> exc]

HasRaised(r) == "error" \in DOMAIN r

Hundred == Rat(100, 1)

One == Rat(1, 1)

(***************************************************************************)
(* data_fetcher.py: fetch_stock_data.  The download and the company info   *)
(* come from the data source; the function rejects an empty download, adds *)
(* the info and indicator columns, and turns every failure into a          *)
(* ValueError.                                                             *)
(***************************************************************************)
SmaShortWindow == 20

SmaLongWindow == 50

EmaFastSpan == 12

EmaSlowSpan == 26

VolatilityWindow == 20

ValueTradedWindow == 5

\* Series.ewm(span).mean() with the default adjust=True at bar t: the weighted
\* mean of x[1..t] with the weights ((span-1)/(span+1))^(t-j), as the ratio of
\* two whole numbers
EwmAdjustedAt(xs, span, t) ==
    LET down == Powers(span - 1, t)
        up == Powers(span + 1, t)
        weight == Tabulate([j \in 1..t |-> SBig(1, BMul(down[t - j + 1], up[j]))])
        num == SSum(Tabulate([j \in 1..t |-> SMulS(weight[j], xs[j])]), 1, t)
        den == SSum(weight, 1, t)
    IN  After(<<down, up>>, [k |-> "ratio", s |-> num.s, m |-> num.m, d |-> den.m])

\* Daily_Return.rolling(20).std() * (252 ** 0.5) at bar t
RollingVolatilityAt(close, t) ==
    IF t < VolatilityWindow + 1 THEN NaN
    ELSE StdOfReturns(SubSeq(close, t - VolatilityWindow, t), 1, 1)

ValueTraded(frame) == [i \in 1..Len(frame.Close) |-> Rat(frame.Close[i] * frame.Volume[i], 1)]

\* the download with the company info and the indicator columns added
WithColumns(history, info) ==
    LET n == Len(history.Close)
        close == history.Close
    IN  [Index |-> history.Index,
         Close |-> close,
         High |-> history.High,
         Low |-> history.Low,
         Volume |-> history.Volume,
         market_cap |-> [i \in 1..n |-> Rat(info.marketCap, 1)],
         sector |-> [i \in 1..n |-> info.sector],
         industry |-> [i \in 1..n |-> info.industry],
         SMA_20 |-> RollingMean(Col(close), SmaShortWindow),
         SMA_50 |-> RollingMean(Col(close), SmaLongWindow),
         EMA_12 |-> [i \in 1..n |-> EwmAdjustedAt(close, EmaFastSpan, i)],
         EMA_26 |-> [i \in 1..n |-> EwmAdjustedAt(close, EmaSlowSpan, i)],
         Daily_Return |-> [i \in 1..n |-> IF i = 1 THEN NaN
                                          ELSE Rat(close[i] - close[i - 1], close[i - 1])],
         Volatility |-> [i \in 1..n |-> RollingVolatilityAt(close, i)],
         Value_Traded |-> ValueTraded(history),
         Avg_Value_Traded |-> RollingMean(ValueTraded(history), ValueTradedWindow)]

\* a fetch that hands on whatever was downloaded, bars or none
fetch_stock_data_unchecked(history, info) ==
    IF HasRaised(history) \/ HasRaised(info) THEN Raised("ValueError")
    ELSE WithColumns(history, info)

\* history is the download (a frame or Raised(..)), info the company info
fetch_stock_data(history, info) ==
    IF HasRaised(history) \/ HasRaised(info) THEN Raised("ValueError")
    ELSE IF Len(history.Close) = 0 THEN Raised("ValueError")
    ELSE WithColumns(history, info)

NewsLimit == 5

\* fetch_news: the items of the two sources (each source answers with a list,
\* empty when it failed), the first item of every title kept, at most `limit`
fetch_news(yahoo, finviz) ==
    LET items == yahoo \o finviz
        unique == {i \in 1..Len(items) : \A j \in 1..(i - 1) : items[j].title /= items[i].title}
        kept == {i \in unique : Cardinality({j \in unique : j <= i}) <= NewsLimit}
    IN  [n \in 1..Cardinality(kept) |->
            items[CHOOSE i \in kept : Cardinality({j \in kept : j <= i}) = n]]

(***************************************************************************)
(* Input frames.  A frame is built from a length, a base price, a shape    *)
(* (a slope per bar plus a repeating pattern of offsets) and a spread (how *)
(* far High lies above and Low below the close; a negative entry gives a   *)
(* bar whose close lies outside its own range, which nothing in the code   *)
(* rules out).  Prices are positive whole numbers.                         *)
(***************************************************************************)
MaxLen == 21

BasePrice == 3

Shapes ==
    { [slope |-> 0, pat |-> <<0>>],         \* constant
      [slope |-> 1, pat |-> <<0>>],         \* strictly increasing
      [slope |-> -1, pat |-> <<0>>],        \* strictly decreasing
      [slope |-> 1, pat |-> <<1, 0>>],      \* non-decreasing with plateaus
      [slope |-> 0, pat |-> <<0, 1>>],      \* zigzag
      [slope |-> 0, pat |-> <<0, 2, 1>>],   \* three-bar cycle
      [slope |-> 1, pat |-> <<0, 2>>],      \* rising zigzag
      [slope |-> -1, pat |-> <<0, 2>>] }    \* falling zigzag

\* the shapes that are also tried with the unusual spreads
SpreadShapes == {sh \in Shapes : sh.pat \in {<<0>>, <<0, 1>>}}

Spreads == { <<0, 0>>, <<-1, 2>>, <<2, -1>> }

CloseAt(n, base, shape, i) ==
    base + shape.pat[((i - 1) % Len(shape.pat)) + 1]
         + (IF shape.slope >= 0 THEN shape.slope * (i - 1) ELSE (-shape.slope) * (n - i))

Frame(n, base, shape, spread, vol) ==
    [Index |-> [i \in 1..n |-> i],
     Close |-> [i \in 1..n |-> CloseAt(n, base, shape, i)],
     High |-> [i \in 1..n |-> CloseAt(n, base, shape, i) + spread[1]],
     Low |-> [i \in 1..n |-> CloseAt(n, base, shape, i) - spread[2]],
     Volume |-> [i \in 1..n |-> vol + 100 * ((i - 1) % 3)]]

\* sixty daily closes 100, 101, ..., 159
LinearFrame == Frame(60, 100, [slope |-> 1, pat |-> <<0>>], <<1, 1>>, 1000)

Frames ==
    { Frame(n, BasePrice, shape, <<1, 1>>, 1000) : n \in 0..MaxLen, shape \in Shapes }
    \cup { Frame(n, BasePrice, shape, spread, 1000) :
             n \in 0..MaxLen, shape \in SpreadShapes, spread \in Spreads }
    \cup { LinearFrame }

\* the same bars traded days later: every date label moved on by the same number
LaterBy(frame, days) ==
    [frame EXCEPT !.Index = [i \in 1..Len(frame.Index) |-> frame.Index[i] + days]]

\* the frames compared with one another: a falling and a rising series of 15
\* bars, a series too short for the RSI, a rising zigzag of 16 bars, a rising
\* series whose dates all lie after the others', and a constant series
RankFrameSeq ==
    << Frame(15, BasePrice, [slope |-> -1, pat |-> <<0>>], <<1, 1>>, 1000),
       Frame(5, BasePrice, [slope |-> 1, pat |-> <<0>>], <<1, 1>>, 2000),
       Frame(15, BasePrice, [slope |-> 1, pat |-> <<0>>], <<1, 1>>, 3000),
       Frame(16, BasePrice, [slope |-> 1, pat |-> <<0, 2>>], <<1, 1>>, 2000),
       LaterBy(Frame(15, BasePrice, [slope |-> 1, pat |-> <<0, 2>>], <<1, 1>>, 2500), 20),
       Frame(15, BasePrice, [slope |-> 0, pat |-> <<0>>], <<1, 1>>, 1500) >>

RankFrames == {RankFrameSeq[i] : i \in 1..Len(RankFrameSeq)}

MaxSymbols == 3

SymbolNames == <<"AAA", "BBB", "CCC", "DDD", "EEE", "FFF">>

\* the dicts of k symbols, inserted in the order of SymbolNames: symbol i holds
\* the frame found by walking RankFrameSeq from any start with a stride of 0
\* (k equal frames), of 1, or of half its length (equal frames two apart)
StockDicts(k) ==
    { [i \in 1..k |->
          [symbol |-> SymbolNames[i],
           data |-> RankFrameSeq[((start + (i - 1) * stride) % Len(RankFrameSeq)) + 1]]] :
        start \in 0..(Len(RankFrameSeq) - 1), stride \in {0, 1, Len(RankFrameSeq) \div 2} }

\* the frames behind the bundles handed to generate_insights: one with every
\* indicator defined and one with undefined fields
CacheFrames ==
    { Frame(21, BasePrice, [slope |-> 0, pat |-> <<0, 2, 1>>], <<1, 1>>, 1000),
      Frame(5, BasePrice, [slope |-> 1, pat |-> <<0>>], <<1, 1>>, 1000) }

(***************************************************************************)
(* analysis.py: analyze_data                                               *)
(***************************************************************************)
\* the trend with the comparison >= in place of >
TrendNonNegative(price_change) == IF RLt(price_change, Zero) THEN "Downward" ELSE "Upward"

\* 'Upward' if analysis['price_change'] > 0 else 'Downward'
Trend(price_change) == IF RGt(price_change, Zero) THEN "Upward" ELSE "Downward"

\* gain = (delta.where(delta > 0, 0)).rolling(window=14).mean(), at the last bar
AvgGain(close) == RollingMeanAt(WherePositive(Diff(close)), RsiWindow, Len(close))

\* the loss without its leading minus sign
AvgLossSigned(close) == RollingMeanAt(WhereNegative(Diff(close)), RsiWindow, Len(close))

\* loss = (-delta.where(delta < 0, 0)).rolling(window=14).mean(), at the last bar
AvgLoss(close) == RollingMeanAt(Negate(WhereNegative(Diff(close))), RsiWindow, Len(close))

\* the RSI with a guard that gives up when the loss is 0
RsiOfGuarded(gain, loss) ==
    IF loss = Zero THEN NaN
    ELSE RSub(Hundred, RDiv(Hundred, RAdd(One, RDiv(gain, loss))))

\* rs = gain / loss; 100 - (100 / (1 + rs.iloc[-1]))
RsiOf(gain, loss) == RSub(Hundred, RDiv(Hundred, RAdd(One, RDiv(gain, loss))))

Rsi(close) == RsiOf(AvgGain(close), AvgLoss(close))

\* %K with the close itself in the numerator (low_14 not subtracted)
StochKFromZero(df) ==
    LET low_14 == RollingMin(df.Low, StochWindow)
        high_14 == RollingMax(df.High, StochWindow)
    IN  [i \in 1..Len(df.Close) |->
            RMul(Hundred, RDiv(Rat(df.Close[i], 1), RSub(high_14[i], low_14[i])))]

\* k = 100 * ((Close - low_14) / (high_14 - low_14))
StochK(df) ==
    LET low_14 == RollingMin(df.Low, StochWindow)
        high_14 == RollingMax(df.High, StochWindow)
    IN  [i \in 1..Len(df.Close) |->
            RMul(Hundred, RDiv(RSub(Rat(df.Close[i], 1), low_14[i]),
                               RSub(high_14[i], low_14[i])))]

\* ((Close.iloc[-1] / Close.iloc[0]) - 1) * 100 with the two prices swapped
PriceChangePctSwapped(close) ==
    IF Last(close) = 0
    THEN RMul(RSub(RDiv(Rat(close[1], 1), Rat(Last(close), 1)), One), Hundred)
    ELSE DblMulInt(DblSubInt(DblDiv(close[1], Last(close)), 1), 100)

\* ((Close.iloc[-1] / Close.iloc[0]) - 1) * 100, in doubles: the division, the
\* subtraction and the multiplication each round; a first close of 0 gives an
\* infinity or NaN
PriceChangePct(close) ==
    IF close[1] = 0
    THEN RMul(RSub(RDiv(Rat(Last(close), 1), Rat(close[1], 1)), One), Hundred)
    ELSE DblMulInt(DblSubInt(DblDiv(Last(close), close[1]), 1), 100)

\* (price_change / Close.iloc[0]) * 100, in doubles
UtilsPriceChangePct(close) ==
    IF close[1] = 0
    THEN RMul(RDiv(Rat(Last(close) - close[1], 1), Rat(close[1], 1)), Hundred)
    ELSE DblMulInt(DblDiv(Last(close) - close[1], close[1]), 100)

\* the indicator fields of analyze_data
Indicators(df) ==
    IF Len(df.Close) = 0 THEN Raised("IndexError")
    ELSE
    LET close == df.Close
        n == Len(close)
        daily_returns == PctChange(close)
        price_change == Rat(close[n] - close[1], 1)
        macd == MacdLine(close)
        signal == Ewm(macd, MacdBase, MacdSignalSpan)
        k == StochK(df)
    IN  [volatility |-> AnnualizedStd(close),
         avg_price |-> Mean(close),
         price_change |-> price_change,
         price_change_pct |-> PriceChangePct(close),
         avg_volume |-> Mean(df.Volume),
         max_daily_gain |-> FMax(daily_returns),
         max_daily_loss |-> FMin(daily_returns),
         trend |-> Trend(price_change),
         macd |-> Scaled(macd[n], MacdBase, n - 1),
         macd_signal |-> Scaled(signal[n], SignalBase, n - 1),
         rsi |-> Rsi(close),
         stoch_k |-> Last(k),
         stoch_d |-> RollingMeanAt(k, StochSmooth, n),
         bb_upper |-> BandAt(close, BollingerWindow, BollingerWidth, n),
         bb_middle |-> BandAt(close, BollingerWindow, 0, n),
         bb_lower |-> BandAt(close, BollingerWindow, -BollingerWidth, n)]

\* the columns whose last value analyze_data copies when the frame has them
InfoKeys ==
    {"sector", "industry", "market_cap", "SMA_20", "SMA_50", "EMA_12", "EMA_26",
     "Volatility", "Avg_Value_Traded"}

\* for key in [...]: if key in data.columns: analysis[key] = data[key].iloc[-1]
CopyInfoColumns(df, indicators) ==
    LET present == InfoKeys \cap DOMAIN df
    IN  IF HasRaised(indicators) \/ present = {} THEN indicators
        ELSE [key \in DOMAIN indicators \cup present |->
                 IF key \in present THEN Last(df[key]) ELSE indicators[key]]

analyze_data(df) == CopyInfoColumns(df, Indicators(df))

(***************************************************************************)
(* utils/analysis.py: analyze_data, the reduced variant.  It keeps the     *)
(* whole Bollinger columns instead of their last values and has no         *)
(* volatility field.                                                       *)
(***************************************************************************)
utils_analyze_data(df) ==
    IF Len(df.Close) = 0 THEN Raised("IndexError")
    ELSE
    LET close == df.Close
        n == Len(close)
        daily_returns == PctChange(close)
        price_change == Rat(close[n] - close[1], 1)
        macd == MacdLine(close)
        signal == Ewm(macd, MacdBase, MacdSignalSpan)
        k == StochK(df)
    IN  [avg_price |-> Mean(close),
         price_change |-> price_change,
         price_change_pct |-> UtilsPriceChangePct(close),
         avg_volume |-> Mean(df.Volume),
         trend |-> Trend(price_change),
         max_daily_gain |-> FMax(daily_returns),
         max_daily_loss |-> FMin(daily_returns),
         macd |-> Scaled(macd[n], MacdBase, n - 1),
         macd_signal |-> Scaled(signal[n], SignalBase, n - 1),
         rsi |-> Rsi(close),
         bb_upper |-> [i \in 1..n |-> BandAt(close, BollingerWindow, BollingerWidth, i)],
         bb_middle |-> [i \in 1..n |-> BandAt(close, BollingerWindow, 0, i)],
         bb_lower |-> [i \in 1..n |-> BandAt(close, BollingerWindow, -BollingerWidth, i)],
         stoch_k |-> Last(k),
         stoch_d |-> RollingMeanAt(k, StochSmooth, n)]

(***************************************************************************)
(* json.dump / json.load of a cache record.  A float is written as the     *)
(* shortest text that reads back as the same float, NaN and the infinities *)
(* as the tokens NaN, Infinity and -Infinity; a string is written quoted.  *)
(* Reading gives new objects: a NaN read from a file is a float NaN.       *)
(***************************************************************************)
TextKeys == {"trend", "sector", "industry"}

JsonFloat(x) ==
    CASE x.k = "nan" -> [json |-> "NaN"]
      [] x.k = "inf" -> [json |-> IF x.s > 0 THEN "Infinity" ELSE "-Infinity"]
      [] OTHER -> [json |-> "number", repr |-> x]

FloatOfJson(t) ==
    CASE t.json = "NaN" -> NaN
      [] t.json = "Infinity" -> Inf(1)
      [] t.json = "-Infinity" -> Inf(-1)
      [] OTHER -> t.repr

JsonString(str) == [json |-> "string", chars |-> str]

JsonDict(d) ==
    [key \in DOMAIN d |-> IF key \in TextKeys THEN JsonString(d[key]) ELSE JsonFloat(d[key])]

DictOfJson(t) ==
    [key \in DOMAIN t |-> IF t[key].json = "string" THEN t[key].chars ELSE FloatOfJson(t[key])]

JsonNews(news) ==
    [i \in 1..Len(news) |-> [key \in DOMAIN news[i] |-> JsonString(news[i][key])]]

NewsOfJson(t) ==
    [i \in 1..Len(t) |-> [key \in DOMAIN t[i] |-> t[i][key].chars]]

\* json.dump({'analysis': analysis, 'news': news, 'insights': insights}, f)
JsonDump(record) ==
    [analysis |-> JsonDict(record.analysis),
     news |-> JsonNews(record.news),
     insights |-> JsonString(record.insights)]

\* a file whose content is no JSON document (a write that was cut short)
Truncated == [truncated |-> TRUE]

\* json.load(f): the record, or JSONDecodeError
JsonLoad(content) ==
    IF content = Truncated THEN Raised("JSONDecodeError")
    ELSE [analysis |-> DictOfJson(content.analysis),
          news |-> NewsOfJson(content.news),
          insights |-> content.insights.chars]

\* Python's == on two values of a bundle: floats compare by value and a NaN
\* equals nothing, strings compare by their characters
PyValueEq(key, a, b) == IF key \in TextKeys THEN a = b ELSE ~IsNaN(a) /\ ~IsNaN(b) /\ a = b

\* Python's == on two dicts: the same keys, and equal values under every key
PyDictEq(a, b) == DOMAIN a = DOMAIN b /\ \A key \in DOMAIN a : PyValueEq(key, a[key], b[key])

\* Python's == on two lists of dicts of strings
PyNewsEq(a, b) == a = b

(***************************************************************************)
(* stockgpt.py: StockGPT.generate_insights.  files maps the names of the   *)
(* cache directory to their content (NoFile when there is none); reply is  *)
(* what the provider does when it is called: it returns a text or raises.  *)
(* The result names the files afterwards, what the call returned or        *)
(* raised, and how often the provider was called.                          *)
(***************************************************************************)
NoFile == [absent |-> TRUE]

\* os.path.join(self.cache_dir, f"{symbol}_{timeframe}.json")
CacheFile(symbol, timeframe) == <<symbol, "_", timeframe, ".json">>

\* the cache check with the news left out of the comparison
CacheLookupIgnoringNews(files, name, bundle, news) ==
    IF files[name] = NoFile THEN [hit |-> FALSE]
    ELSE LET cached_data == JsonLoad(files[name])
         IN  IF HasRaised(cached_data) THEN [hit |-> FALSE]
             ELSE IF PyDictEq(cached_data.analysis, bundle)
                  THEN [hit |-> TRUE, insights |-> cached_data.insights]
                  ELSE [hit |-> FALSE]

\* the cache check: the stored insights when the stored record matches
CacheLookup(files, name, bundle, news) ==
    IF files[name] = NoFile THEN [hit |-> FALSE]
    ELSE LET cached_data == JsonLoad(files[name])
         IN  IF HasRaised(cached_data) THEN [hit |-> FALSE]
             ELSE IF PyDictEq(cached_data.analysis, bundle)
                        /\ PyNewsEq(cached_data.news, news)
                  THEN [hit |-> TRUE, insights |-> cached_data.insights]
                  ELSE [hit |-> FALSE]

\* a provider call repeated once after a failure
generate_insights_retrying(files, symbol, bundle, timeframe, news, reply) ==
    LET name == CacheFile(symbol, timeframe)
        found == CacheLookup(files, name, bundle, news)
    IN  IF found.hit
        THEN [files |-> files, result |-> [insights |-> found.insights], called |-> 0]
        ELSE IF HasRaised(reply)
        THEN [files |-> files, result |-> reply, called |-> 2]
        ELSE [files |-> [files EXCEPT ![name] =
                            JsonDump([analysis |-> bundle, news |-> news,
                                      insights |-> reply.text])],
              result |-> [insights |-> reply.text],
              called |-> 1]

\* the cache file opened for writing before the provider is asked
generate_insights_writing_first(files, symbol, bundle, timeframe, news, reply) ==
    LET name == CacheFile(symbol, timeframe)
        found == CacheLookup(files, name, bundle, news)
    IN  IF found.hit
        THEN [files |-> files, result |-> [insights |-> found.insights], called |-> 0]
        ELSE IF HasRaised(reply)
        THEN [files |-> [files EXCEPT ![name] = Truncated], result |-> reply, called |-> 1]
        ELSE [files |-> [files EXCEPT ![name] =
                            JsonDump([analysis |-> bundle, news |-> news,
                                      insights |-> reply.text])],
              result |-> [insights |-> reply.text],
              called |-> 1]

\* generate_insights: files is the cache directory, reply what the provider
\* does with the prompt; the result, the files afterwards and the number of
\* provider calls made
generate_insights(files, symbol, bundle, timeframe, news, reply) ==
    LET name == CacheFile(symbol, timeframe)
        found == CacheLookup(files, name, bundle, news)
    IN  IF found.hit
        THEN [files |-> files, result |-> [insights |-> found.insights], called |-> 0]
        ELSE IF HasRaised(reply)
        THEN [files |-> files, result |-> reply, called |-> 1]
        ELSE [files |-> [files EXCEPT ![name] =
                            JsonDump([analysis |-> bundle, news |-> news,
                                      insights |-> reply.text])],
              result |-> [insights |-> reply.text],
              called |-> 1]

(***************************************************************************)
(* Python's sorted(items, key=..., reverse=...) for fewer than 64 items:   *)
(* the keys are compared with the float <, a leading run is found (and     *)
(* reversed when strictly descending), the rest is inserted by binary      *)
(* search; reverse=True reverses the list before and after.                *)
(***************************************************************************)
Reverse(xs) == [i \in 1..Len(xs) |-> xs[Len(xs) + 1 - i]]

\* count_run: the length of the run that starts the list and whether it descends
RECURSIVE RunEnd(_, _, _)
RunEnd(keys, i, descending) ==
    IF i > Len(keys) THEN i - 1
    ELSE IF FLt(keys[i], keys[i - 1]) = descending THEN RunEnd(keys, i + 1, descending)
    ELSE i - 1

CountRun(keys) ==
    IF Len(keys) < 2 THEN [n |-> Len(keys), descending |-> FALSE]
    ELSE LET descending == FLt(keys[2], keys[1])
         IN  [n |-> RunEnd(keys, 3, descending), descending |-> descending]

\* binarysort's search: where the pivot goes among xs[l..r-1]
RECURSIVE InsertionPoint(_, _, _, _, _)
InsertionPoint(xs, key, pivot, l, r) ==
    LET p == l + ((r - l) \div 2)
        nl == IF FLt(key[pivot], key[xs[p]]) THEN l ELSE p + 1
        nr == IF FLt(key[pivot], key[xs[p]]) THEN p ELSE r
    IN  IF nl < nr THEN InsertionPoint(xs, key, pivot, nl, nr) ELSE nl

\* binarysort: xs[1..start-1] is sorted, the items from start on are inserted
RECURSIVE BinarySort(_, _, _)
BinarySort(xs, key, start) ==
    IF start > Len(xs) THEN xs
    ELSE LET at == InsertionPoint(xs, key, xs[start], 1, start)
             moved == [i \in 1..Len(xs) |->
                          IF i < at \/ i > start THEN xs[i]
                          ELSE IF i = at THEN xs[start]
                          ELSE xs[i - 1]]
         IN  BinarySort(moved, key, start + 1)

ListSort(xs, key) ==
    LET run == CountRun([i \in 1..Len(xs) |-> key[xs[i]]])
        head == IF run.descending
                THEN [i \in 1..Len(xs) |-> IF i <= run.n THEN xs[run.n + 1 - i] ELSE xs[i]]
                ELSE xs
    IN  IF Len(xs) < 2 THEN xs ELSE BinarySort(head, key, run.n + 1)

SortedReverse(xs, key) == Reverse(ListSort(Reverse(xs), key))

(***************************************************************************)
(* comparison.py: StockComparison.  stocks_data is a dict, modelled as the *)
(* sequence of its items [symbol, data] in insertion order.                *)
(***************************************************************************)
SymbolsOf(stocks) == [i \in 1..Len(stocks) |-> stocks[i].symbol]

DataOf(stocks, symbol) ==
    stocks[CHOOSE i \in 1..Len(stocks) : stocks[i].symbol = symbol].data

\* the five metrics kept of a bundle
MetricsOf(a) ==
    [price_change_pct |-> a.price_change_pct,
     avg_volume |-> a.avg_volume,
     volatility |-> a.volatility,
     rsi |-> a.rsi,
     trend |-> a.trend]

\* the dict of metrics built from the bundles of the items, in their order; the
\* first bundle that is an exception ends the loop
PerformanceOf(stocks, bundles) ==
    LET failed == {i \in 1..Len(stocks) : HasRaised(bundles[i])}
    IN  IF failed /= {} THEN bundles[CHOOSE i \in failed : \A j \in failed : i <= j]
        ELSE Tabulate([sym \in {stocks[i].symbol : i \in 1..Len(stocks)} |->
                 MetricsOf(bundles[CHOOSE i \in 1..Len(stocks) : stocks[i].symbol = sym])])

\* compare_performance: the metrics per symbol, or what analyze_data raised
compare_performance(stocks) ==
    PerformanceOf(stocks, Tabulate([i \in 1..Len(stocks) |-> analyze_data(stocks[i].data)]))

\* an alignment that ignores the dates: the k-th close under the k-th date
AlignedCloseByPosition(frame, index) ==
    [r \in 1..Len(index) |-> IF r <= Len(frame.Close) THEN Rat(frame.Close[r], 1) ELSE NaN]

\* prices[symbol] = data['Close']: the first column brings its index (the
\* bars' dates), every later column is aligned to that index by date; a date
\* the column lacks gives NaN there, a date the index lacks is dropped
AlignedClose(frame, index) ==
    [r \in 1..Len(index) |->
        IF \E i \in 1..Len(frame.Index) : frame.Index[i] = index[r]
        THEN Rat(frame.Close[CHOOSE i \in 1..Len(frame.Index) : frame.Index[i] = index[r]], 1)
        ELSE NaN]

\* the slope of the regression of ys on xs instead of the correlation: N / Dx
RegressionSlope(xs, ys) ==
    LET rows == {r \in 1..Len(xs) : ~IsNaN(xs[r]) /\ ~IsNaN(ys[r])}
        n == Cardinality(rows)
        x == [r \in 1..Len(xs) |-> IF r \in rows THEN xs[r].n ELSE 0]
        y == [r \in 1..Len(xs) |-> IF r \in rows THEN ys[r].n ELSE 0]
        sx == IntSum(x, 1, Len(xs))
        sy == IntSum(y, 1, Len(xs))
        N == n * IntSum([r \in 1..Len(xs) |-> x[r] * y[r]], 1, Len(xs)) - sx * sy
        Dx == n * IntSum([r \in 1..Len(xs) |-> x[r] * x[r]], 1, Len(xs)) - sx * sx
    IN  IF n = 0 \/ Dx = 0 THEN NaN ELSE Rat(N, Dx)

\* DataFrame.corr() for one pair of columns: Pearson's r over the rows where
\* both are present, NaN when one of the two has no spread there.  With n rows,
\* N = n*sum(xy) - sum(x)sum(y) and Dx = n*sum(xx) - sum(x)^2 (Dy alike),
\* r = N / sqrt(Dx * Dy).
PearsonOf(xs, ys) ==
    LET rows == {r \in 1..Len(xs) : ~IsNaN(xs[r]) /\ ~IsNaN(ys[r])}
        n == Cardinality(rows)
        x == [r \in 1..Len(xs) |-> IF r \in rows THEN xs[r].n ELSE 0]
        y == [r \in 1..Len(xs) |-> IF r \in rows THEN ys[r].n ELSE 0]
        sx == IntSum(x, 1, Len(xs))
        sy == IntSum(y, 1, Len(xs))
        N == n * IntSum([r \in 1..Len(xs) |-> x[r] * y[r]], 1, Len(xs)) - sx * sy
        Dx == n * IntSum([r \in 1..Len(xs) |-> x[r] * x[r]], 1, Len(xs)) - sx * sx
        Dy == n * IntSum([r \in 1..Len(xs) |-> y[r] * y[r]], 1, Len(xs)) - sy * sy
        num2 == BMul(BigOf(Abs(N)), BigOf(Abs(N)))
        den2 == BMul(BigOf(Dx), BigOf(Dy))
    IN  IF n = 0 \/ Dx = 0 \/ Dy = 0 THEN NaN
        ELSE IF N = 0 THEN Zero
        ELSE IF num2 = den2 THEN Rat(Sign(N), 1)
        ELSE [k |-> "root", s |-> Sign(N), rn |-> num2, rd |-> den2]

\* calculate_correlations: the matrix over the symbols
calculate_correlations(stocks) ==
    LET index == IF Len(stocks) = 0 THEN <<>> ELSE stocks[1].data.Index
        prices == [sym \in {stocks[i].symbol : i \in 1..Len(stocks)} |->
                      AlignedClose(DataOf(stocks, sym), index)]
    IN  [a \in DOMAIN prices |-> [b \in DOMAIN prices |-> PearsonOf(prices[a], prices[b])]]

\* rank_stocks: performance = self.compare_performance(), then the symbols
\* sorted by each metric, largest first
RankBy(stocks, metrics) ==
    LET ByReturn == [x \in DOMAIN metrics |-> metrics[x].price_change_pct]
        ByVolume == [x \in DOMAIN metrics |-> metrics[x].avg_volume]
        ByRsi == [x \in DOMAIN metrics |-> metrics[x].rsi]
    IN  IF HasRaised(metrics) THEN metrics
        ELSE [return |-> SortedReverse(SymbolsOf(stocks), ByReturn),
              volume |-> SortedReverse(SymbolsOf(stocks), ByVolume),
              momentum |-> SortedReverse(SymbolsOf(stocks), ByRsi)]

rank_stocks(stocks) == RankBy(stocks, compare_performance(stocks))

(***************************************************************************)
(* The arguments tried on generate_insights                                *)
(***************************************************************************)
CacheBundles == {analyze_data(frame) : frame \in CacheFrames}

Headline(title) ==
    [title |-> title, link |-> "#", publisher |-> "Yahoo Finance",
     published_date |-> "1970-01-01 00:00:00", summary |-> ""]

NewsLists == { fetch_news(<<Headline("Earnings beat")>>, <<>>), fetch_news(<<>>, <<>>) }

CacheSymbols == {"AAA", "BBB"}

Timeframes == {"1mo", "1y"}

CacheNames == {CacheFile(symbol, timeframe) : symbol \in CacheSymbols, timeframe \in Timeframes}

\* what the provider can do with a prompt: answer, hit the rate limit (turned
\* into RuntimeError), or fail otherwise (the SDK's error passes through)
Responses ==
    { [text |-> "Buy"], [text |-> "Hold"], Raised("RateLimitError"), Raised("APIError") }

\* AnthropicProvider / OpenAIProvider.generate_insights: one request; the
\* text of the response, RuntimeError for RateLimitError, any other error as
\* it is
provider_generate_insights(response) ==
    IF response = Raised("RateLimitError") THEN Raised("RuntimeError") ELSE response

Replies == {provider_generate_insights(response) : response \in Responses}

MaxCalls == 2

(***************************************************************************)
(* stockgpt.py: the command line driver.  A symbol is a string; Spelling   *)
(* gives its characters, which is what str.isalpha looks at.               *)
(***************************************************************************)
SymbolLetters == <<"A", "B", "C", "D", "E", "F">>

BadSymbol == "A1"

Spelling(symbol) ==
    IF symbol = "" THEN <<>>
    ELSE IF symbol = BadSymbol THEN <<"A", "1">>
    ELSE LET i == CHOOSE j \in 1..Len(SymbolNames) : SymbolNames[j] = symbol
         IN  <<SymbolLetters[i], SymbolLetters[i], SymbolLetters[i]>>

\* str.isalpha(): at least one character and every character a letter
IsAlpha(symbol) ==
    /\ Len(Spelling(symbol)) > 0
    /\ \A i \in 1..Len(Spelling(symbol)) :
          \E j \in 1..Len(SymbolLetters) : SymbolLetters[j] = Spelling(symbol)[i]

validate_inputs(symbol) == IF IsAlpha(symbol) THEN [ok |-> TRUE] ELSE Raised("ValueError")

\* get_date_range: how many days before now the range starts
get_date_range(timeframe) ==
    CASE timeframe = "1d" -> [days |-> 1]
      [] timeframe = "5d" -> [days |-> 5]
      [] timeframe = "1mo" -> [days |-> 30]
      [] timeframe = "3mo" -> [days |-> 90]
      [] timeframe = "6mo" -> [days |-> 180]
      [] timeframe = "1y" -> [days |-> 365]
      [] OTHER -> Raised("ValueError")

\* stocks_data[symbol] = stock_data on a dict: a known key keeps its place
DictSet(stocks, symbol, frame) ==
    IF \E i \in 1..Len(stocks) : stocks[i].symbol = symbol
    THEN [i \in 1..Len(stocks) |->
             IF stocks[i].symbol = symbol THEN [symbol |-> symbol, data |-> frame]
             ELSE stocks[i]]
    ELSE Append(stocks, [symbol |-> symbol, data |-> frame])

\* a handler the code does not have: the failed symbol is given up and the loop
\* goes on with the next one
ContinueWithNext(position, count) ==
    [pc |-> IF position < count THEN "fetch" ELSE IF count > 1 THEN "compare" ELSE "exited",
     position |-> position + 1,
     exit_status |-> IF position < count \/ count > 1 THEN -1 ELSE 0]

\* main's except Exception: the message goes to stderr and sys.exit(1) ends
\* the run, wherever in the list of count symbols the run stood
ExitOnError(position, count) == [pc |-> "exited", position |-> position, exit_status |-> 1]

(***************************************************************************)
(* The command lines and what the outside world answers during a run       *)
(***************************************************************************)
Prefix(k) == SubSeq(SymbolNames, 1, k)

\* k symbols: all valid and different, one of them malformed (the first or
\* the last), or the first one given again at the end
SymbolLists(k) ==
    {Prefix(k), [Prefix(k) EXCEPT ![1] = BadSymbol], [Prefix(k) EXCEPT ![k] = BadSymbol]}
    \cup (IF k > 1 THEN {[Prefix(k) EXCEPT ![k] = SymbolNames[1]]} ELSE {})

RunTimeframes == {"1mo", "2w"}

CommandLines ==
    { [symbols |-> symbols, timeframe |-> timeframe, compare |-> compare] :
        symbols \in UNION {SymbolLists(k) : k \in 1..MaxSymbols},
        timeframe \in RunTimeframes, compare \in BOOLEAN }

\* Ticker.history(): a few bars, nothing, or a failure of the data source
Histories ==
    { Frame(3, BasePrice, [slope |-> 1, pat |-> <<0>>], <<1, 1>>, 1000),
      Frame(2, BasePrice, [slope |-> -1, pat |-> <<0>>], <<1, 1>>, 2000),
      Frame(0, BasePrice, [slope |-> 0, pat |-> <<0>>], <<1, 1>>, 1000),
      Raised("ConnectionError") }

\* Ticker.info, with info.get's defaults filled in
Infos == { [marketCap |-> 0, sector |-> "Unknown", industry |-> "Unknown"] }

\* the provider during a run: it answers, or it hits the rate limit
RunReplies == { [text |-> "Buy"], Raised("RuntimeError") }

RunCacheNames ==
    {CacheFile(SymbolNames[i], timeframe) : i \in 1..Len(SymbolNames), timeframe \in Timeframes}

(***************************************************************************)
(* State                                                                   *)
(***************************************************************************)
VARIABLES
    data,           \* the frame handed to analyze_data
    engine,         \* which analyze_data ran: "none", "analysis" or "utils"
    analysis,       \* what it returned: a bundle, Raised(..), or NoResult before the call
    stocks_data,    \* StockComparison.stocks_data, the items in insertion order
    performance,    \* what compare_performance returned, NoResult before the call
    correlations,   \* what calculate_correlations returned, NoResult before the call
    rankings,       \* what rank_stocks returned, NoResult before the call
    cache,          \* the files of the cache directory, by name
    request,        \* the arguments of the last generate_insights call
    returned,       \* what that call returned or raised
    insight_calls,  \* how often generate_insights has been called
    provider_calls, \* how often the AI provider has been called
    args,           \* the parsed command line
    pc,             \* where main stands
    mode,           \* "multiple" in analyze_multiple_stocks, "single" in analyze_stock
    position,       \* the index in args.symbols of the symbol at hand
    download,       \* what the data source gave the last fetch_stock_data
    news,           \* the news fetched for the symbol at hand
    events,         \* the steps taken so far, each with its symbol and outcome
    exit_status     \* the status the process ended with, -1 while it runs

analyzeVars == <<data, engine, analysis>>

compareVars == <<stocks_data, performance, correlations, rankings>>

cacheVars == <<cache, request, returned, insight_calls, provider_calls>>

mainVars == <<args, pc, mode, position, download, news, events, exit_status>>

vars == <<data, engine, analysis, stocks_data, performance, correlations, rankings,
          cache, request, returned, insight_calls, provider_calls,
          args, pc, mode, position, download, news, events, exit_status>>

NoResult == [pending |-> TRUE]

NoFrame == [Index |-> <<>>, Close |-> <<>>, High |-> <<>>, Low |-> <<>>, Volume |-> <<>>]

AnalyzeIdle == data = NoFrame /\ engine = "none" /\ analysis = NoResult

CompareIdle ==
    /\ stocks_data = <<>>
    /\ performance = NoResult
    /\ correlations = NoResult
    /\ rankings = NoResult

EmptyCache == [name \in CacheNames |-> NoFile]

CacheIdle ==
    /\ cache = EmptyCache
    /\ request = NoResult
    /\ returned = NoResult
    /\ insight_calls = 0
    /\ provider_calls = 0

NoArgs == [symbols |-> <<>>, timeframe |-> "", compare |-> FALSE]

MainIdle ==
    /\ args = NoArgs
    /\ pc = "idle"
    /\ mode = "none"
    /\ position = 0
    /\ download = NoResult
    /\ news = <<>>
    /\ events = <<>>
    /\ exit_status = -1

(***************************************************************************)
(* The indicator engine as a state machine: one call of analyze_data on    *)
(* any frame.                                                              *)
(***************************************************************************)
InitAnalyze ==
    /\ data \in Frames
    /\ engine = "none"
    /\ analysis = NoResult
    /\ CompareIdle
    /\ CacheIdle
    /\ MainIdle

AnalyzeData ==
    /\ engine = "none"
    /\ engine' = "analysis"
    /\ analysis' = analyze_data(data)
    /\ UNCHANGED <<data, compareVars, cacheVars, mainVars>>

UtilsAnalyzeData ==
    /\ engine = "none"
    /\ engine' = "utils"
    /\ analysis' = utils_analyze_data(data)
    /\ UNCHANGED <<data, compareVars, cacheVars, mainVars>>

NextAnalyze == AnalyzeData \/ UtilsAnalyzeData

SpecAnalyze == InitAnalyze /\ [][NextAnalyze]_vars

(***************************************************************************)
(* The comparison engine as a state machine: a StockComparison built on    *)
(* any dict of frames, then its three methods, each called once, in any    *)
(* order.                                                                  *)
(***************************************************************************)
InitRank ==
    /\ \E k \in 1..MaxSymbols : stocks_data \in StockDicts(k)
    /\ performance = NoResult
    /\ correlations = NoResult
    /\ rankings = NoResult
    /\ AnalyzeIdle
    /\ CacheIdle
    /\ MainIdle

ComparePerformance ==
    /\ performance = NoResult
    /\ performance' = compare_performance(stocks_data)
    /\ UNCHANGED <<stocks_data, correlations, rankings, analyzeVars, cacheVars, mainVars>>

CalculateCorrelations ==
    /\ correlations = NoResult
    /\ correlations' = calculate_correlations(stocks_data)
    /\ UNCHANGED <<stocks_data, performance, rankings, analyzeVars, cacheVars, mainVars>>

RankStocks ==
    /\ rankings = NoResult
    /\ rankings' = rank_stocks(stocks_data)
    /\ UNCHANGED <<stocks_data, performance, correlations, analyzeVars, cacheVars, mainVars>>

NextRank == ComparePerformance \/ CalculateCorrelations \/ RankStocks

SpecRank == InitRank /\ [][NextRank]_vars

(***************************************************************************)
(* The insight cache as a state machine: generate_insights called with any *)
(* arguments, on a cache directory that is empty or holds one file cut     *)
(* short by an interrupted write.                                          *)
(***************************************************************************)
InitCache ==
    /\ cache \in {EmptyCache} \cup {[EmptyCache EXCEPT ![name] = Truncated] : name \in CacheNames}
    /\ request = NoResult
    /\ returned = NoResult
    /\ insight_calls = 0
    /\ provider_calls = 0
    /\ AnalyzeIdle
    /\ CompareIdle
    /\ MainIdle

GenerateInsights ==
    /\ insight_calls < MaxCalls
    /\ \E symbol \in CacheSymbols, timeframe \in Timeframes, bundle \in CacheBundles,
          items \in NewsLists, reply \in Replies :
          LET done == generate_insights(cache, symbol, bundle, timeframe, items, reply)
          IN  /\ request' = [symbol |-> symbol, analysis |-> bundle,
                             timeframe |-> timeframe, news |-> items]
              /\ cache' = done.files
              /\ returned' = done.result
              /\ insight_calls' = insight_calls + 1
              /\ provider_calls' = provider_calls + done.called
    /\ UNCHANGED <<analyzeVars, compareVars, mainVars>>

NextCache == GenerateInsights

SpecCache == InitCache /\ [][NextCache]_vars

(***************************************************************************)
(* main as a state machine: the environment check, the validation of every *)
(* symbol, the dispatch, then for each symbol of the run the fetch, the     *)
(* analysis, the news and the insights, and at the end of a run over        *)
(* several symbols the comparison.  The console output is left out, and so *)
(* is the dict analyses, which is written and never read.                   *)
(***************************************************************************)
Init ==
    /\ args \in CommandLines
    /\ pc = "check_environment"
    /\ mode = "none"
    /\ position = 0
    /\ download = NoResult
    /\ news = <<>>
    /\ events = <<>>
    /\ exit_status = -1
    /\ cache = [name \in RunCacheNames |-> NoFile]
    /\ request = NoResult
    /\ returned = NoResult
    /\ insight_calls = 0
    /\ provider_calls = 0
    /\ AnalyzeIdle
    /\ CompareIdle

Symbol == args.symbols[position]

\* the symbols the run goes through
Count == IF mode = "multiple" THEN Len(args.symbols) ELSE 1

Event(step, ok) == [step |-> step, symbol |-> Symbol, position |-> position, ok |-> ok]

\* the step failed: its exception reaches main's handler
Fails(step) ==
    LET end == ExitOnError(position, Count)
    IN  /\ events' = Append(events, Event(step, FALSE))
        /\ pc' = end.pc
        /\ position' = end.position
        /\ exit_status' = end.exit_status

\* check_environment: sys.exit(1) when the environment is not as required
CheckEnvironment ==
    /\ pc = "check_environment"
    /\ \E fit \in BOOLEAN :
          IF fit THEN pc' = "validate" /\ position' = 1 /\ exit_status' = exit_status
          ELSE pc' = "exited" /\ position' = position /\ exit_status' = 1
    /\ UNCHANGED <<args, mode, download, news, events, analyzeVars, compareVars, cacheVars>>

\* for symbol in args.symbols: validate_inputs(symbol), one symbol per step
ValidateInputs ==
    /\ pc = "validate"
    /\ IF HasRaised(validate_inputs(Symbol))
       THEN /\ events' = Append(events, Event("validate", FALSE))
            /\ pc' = "exited"
            /\ position' = position
            /\ exit_status' = 1
       ELSE /\ events' = Append(events, Event("validate", TRUE))
            /\ pc' = IF position < Len(args.symbols) THEN "validate" ELSE "dispatch"
            /\ position' = IF position < Len(args.symbols) THEN position + 1 ELSE position
            /\ exit_status' = exit_status
    /\ UNCHANGED <<args, mode, download, news, analyzeVars, compareVars, cacheVars>>

\* a dispatch that looks at the number of symbols only
ModeOfSymbolCount(compare, count) == IF count > 1 THEN "multiple" ELSE "single"

\* if args.compare and len(args.symbols) > 1: ... else: ...
ModeOf(compare, count) == IF compare /\ count > 1 THEN "multiple" ELSE "single"

\* StockGPT(...), then analyze_multiple_stocks or analyze_stock(symbols[0])
Dispatch ==
    /\ pc = "dispatch"
    /\ mode' = ModeOf(args.compare, Len(args.symbols))
    /\ position' = 1
    /\ pc' = "fetch"
    /\ UNCHANGED <<args, download, news, events, exit_status, analyzeVars, compareVars, cacheVars>>

\* get_date_range, fetch_stock_data, and in analyze_multiple_stocks
\* stocks_data[symbol] = stock_data
FetchStockData ==
    /\ pc = "fetch"
    /\ \E history \in Histories, info \in Infos :
          LET stock_data == IF HasRaised(get_date_range(args.timeframe))
                            THEN get_date_range(args.timeframe)
                            ELSE fetch_stock_data(history, info)
          IN  /\ download' = IF HasRaised(get_date_range(args.timeframe))
                           THEN download ELSE history
              /\ IF HasRaised(stock_data)
                 THEN Fails("fetch") /\ UNCHANGED <<data, stocks_data>>
                 ELSE /\ events' = Append(events, Event("fetch", TRUE))
                      /\ data' = stock_data
                      /\ stocks_data' = IF mode = "multiple"
                                         THEN DictSet(stocks_data, Symbol, stock_data)
                                         ELSE stocks_data
                      /\ pc' = "analyze"
                      /\ UNCHANGED <<position, exit_status>>
    /\ UNCHANGED <<args, mode, news, engine, analysis, performance, correlations,
                   rankings, cacheVars>>

\* analysis = analyze_data(stock_data)
Analyze ==
    /\ pc = "analyze"
    /\ LET bundle == analyze_data(data)
       IN  IF HasRaised(bundle)
           THEN Fails("analyze") /\ UNCHANGED <<engine, analysis>>
           ELSE /\ events' = Append(events, Event("analyze", TRUE))
                /\ engine' = "analysis"
                /\ analysis' = bundle
                /\ pc' = "news"
                /\ UNCHANGED <<position, exit_status>>
    /\ UNCHANGED <<args, mode, download, news, data, compareVars, cacheVars>>

\* news = fetch_news(symbol), which answers with a list whatever happens
FetchNews ==
    /\ pc = "news"
    /\ news' \in NewsLists
    /\ events' = Append(events, Event("news", TRUE))
    /\ pc' = "insights"
    /\ UNCHANGED <<args, mode, download, position, exit_status, analyzeVars, compareVars, cacheVars>>

\* insights = self.generate_insights(symbol, analysis, timeframe, news), and
\* after it the next symbol, the comparison, or the end of the run
Insights ==
    /\ pc = "insights"
    /\ \E reply \in RunReplies :
          LET done == generate_insights(cache, Symbol, analysis, args.timeframe, news, reply)
          IN  /\ request' = [symbol |-> Symbol, analysis |-> analysis,
                             timeframe |-> args.timeframe, news |-> news]
              /\ cache' = done.files
              /\ returned' = done.result
              /\ insight_calls' = insight_calls + 1
              /\ provider_calls' = provider_calls + done.called
              /\ IF HasRaised(done.result)
                 THEN Fails("insights")
                 ELSE /\ events' = Append(events, Event("insights", TRUE))
                      /\ pc' = IF position < Count THEN "fetch"
                               ELSE IF mode = "multiple" THEN "compare" ELSE "exited"
                      /\ position' = IF position < Count THEN position + 1 ELSE position
                      /\ exit_status' = IF position < Count \/ mode = "multiple"
                                        THEN exit_status ELSE 0
    /\ UNCHANGED <<args, mode, download, news, analyzeVars, compareVars>>

\* if len(symbols) > 1: the three methods of StockComparison(stocks_data)
Compare ==
    /\ pc = "compare"
    /\ LET perf_comparison == compare_performance(stocks_data)
           matrix == calculate_correlations(stocks_data)
           ranked == rank_stocks(stocks_data)
       IN  IF HasRaised(perf_comparison) \/ HasRaised(ranked)
           THEN /\ events' = Append(events, [step |-> "compare", symbol |-> "",
                                             position |-> position, ok |-> FALSE])
                /\ pc' = "exited"
                /\ exit_status' = 1
                /\ UNCHANGED <<performance, correlations, rankings>>
           ELSE /\ events' = Append(events, [step |-> "compare", symbol |-> "",
                                             position |-> position, ok |-> TRUE])
                /\ performance' = perf_comparison
                /\ correlations' = matrix
                /\ rankings' = ranked
                /\ pc' = "exited"
                /\ exit_status' = 0
    /\ UNCHANGED <<args, mode, download, position, news, stocks_data, analyzeVars, cacheVars>>

Next ==
    \/ CheckEnvironment
    \/ ValidateInputs
    \/ Dispatch
    \/ FetchStockData
    \/ Analyze
    \/ FetchNews
    \/ Insights
    \/ Compare

Spec == Init /\ [][Next]_vars

(***************************************************************************)
(* Properties of the indicator engine (checked under SpecAnalyze).  The    *)
(* preconditions are stated on the whole-number prices of the frame, not   *)
(* on the engine's own intermediate columns.                               *)
(***************************************************************************)
Bars == Len(data.Close)

Returned == engine /= "none" /\ ~HasRaised(analysis)

\* the bars whose price delta enters the 14-bar averages at the last bar (the
\* first bar's delta is NaN and counts as 0 in both columns)
DeltaBars == {i \in 2..Bars : i > Bars - RsiWindow}

NoLoss14 == Bars >= RsiWindow /\ \A i \in DeltaBars : data.Close[i] >= data.Close[i - 1]

SomeLoss14 == Bars >= RsiWindow /\ \E i \in DeltaBars : data.Close[i] < data.Close[i - 1]

SomeGain14 == Bars >= RsiWindow /\ \E i \in DeltaBars : data.Close[i] > data.Close[i - 1]

StochBars == {i \in 1..Bars : i > Bars - StochWindow}

HighLowDiffer14 ==
    /\ Bars >= StochWindow
    /\ \E h \in StochBars, l \in StochBars :
          /\ \A i \in StochBars : data.High[i] <= data.High[h] /\ data.Low[i] >= data.Low[l]
          /\ data.High[h] /= data.Low[l]

CloseWithinBar == \A i \in 1..Bars : data.Low[i] <= data.Close[i] /\ data.Close[i] <= data.High[i]

ConstantClose == Bars >= 1 /\ \A i \in 1..Bars : data.Close[i] = data.Close[1]

IncreasingClose ==
    /\ Bars >= 2
    /\ data.Close[1] > 0
    /\ \A i \in 2..Bars : data.Close[i] > data.Close[i - 1]

\* the float comparison a == b: False as soon as a NaN is involved
FloatEq(x, y) == ~IsNaN(x) /\ ~IsNaN(y) /\ x = y

InPercentRange(x) == IsFinite(x) /\ RLe(Zero, x) /\ RLe(x, Hundred)

\* C2: for every non-empty series, both analyze_data variants return trend
\* "Upward" exactly when last close minus first close is > 0 and "Downward"
\* otherwise (also when the change is 0); there is no third value.
TrendFollowsPriceChange ==
    (engine /= "none" /\ Bars >= 1) =>
        /\ ~HasRaised(analysis)
        /\ analysis.trend =
              (IF Last(data.Close) - data.Close[1] > 0 THEN "Upward" ELSE "Downward")

FlatSeriesIsDownward ==
    /\ engine = "analysis"
    /\ Bars >= 2
    /\ Last(data.Close) = data.Close[1]
    /\ analysis.trend = "Downward"

\* C4 as stated: when the 14-bar average loss at the last bar is 0,
\* analyze_data does not raise and rsi is non-finite, whatever the average gain.
RsiNonFiniteWithoutLoss ==
    (engine = "analysis" /\ NoLoss14) =>
        /\ ~HasRaised(analysis)
        /\ ~IsFinite(analysis.rsi)

\* C4 amended: when the 14-bar average loss at the last bar is 0,
\* analyze_data does not raise; rsi is 100 when the average gain is positive
\* and undefined (NaN) when the average gain is 0 as well.
RsiWithoutLoss ==
    (engine = "analysis" /\ NoLoss14) =>
        /\ ~HasRaised(analysis)
        /\ IF SomeGain14 THEN analysis.rsi = Hundred ELSE IsNaN(analysis.rsi)

GainsOnlyGivesHundred ==
    /\ engine = "analysis"
    /\ NoLoss14
    /\ SomeGain14
    /\ analysis.rsi = Hundred

\* C5: for every series of at least 15 bars whose 14-bar average loss at the
\* last bar is > 0, rsi is a number with 0 <= rsi <= 100.
RsiBounded ==
    (engine = "analysis" /\ Bars >= RsiWindow + 1 /\ SomeLoss14) =>
        /\ ~HasRaised(analysis)
        /\ InPercentRange(analysis.rsi)

RsiStrictlyInside ==
    /\ engine = "analysis"
    /\ Bars >= RsiWindow + 1
    /\ SomeLoss14
    /\ SomeGain14
    /\ RGt(analysis.rsi, Zero)
    /\ RLt(analysis.rsi, Hundred)

\* C6 as stated: for every series of at least 14 bars whose 14-bar high
\* differs from its 14-bar low, 0 <= stoch_k <= 100, with nothing assumed
\* about where a bar's close lies relative to its high and low.
StochKBoundedAnyBars ==
    (engine = "analysis" /\ HighLowDiffer14) =>
        /\ ~HasRaised(analysis)
        /\ InPercentRange(analysis.stoch_k)

\* C6 amended: for every series of at least 14 bars whose 14-bar high differs
\* from its 14-bar low and in which every bar's close lies between that bar's
\* low and high, 0 <= stoch_k <= 100.
StochKBounded ==
    (engine = "analysis" /\ HighLowDiffer14 /\ CloseWithinBar) =>
        /\ ~HasRaised(analysis)
        /\ InPercentRange(analysis.stoch_k)

StochKStrictlyInside ==
    /\ engine = "analysis"
    /\ HighLowDiffer14
    /\ CloseWithinBar
    /\ RGt(analysis.stoch_k, Zero)
    /\ RLt(analysis.stoch_k, Hundred)

Bands == <<analysis.bb_upper, analysis.bb_middle, analysis.bb_lower>>

\* C7 as stated: for all series of length < 20, analyze_data does not raise
\* and bb_upper, bb_middle and bb_lower are all undefined.
BandsUndefinedBelowWindow ==
    (engine = "analysis" /\ Bars < BollingerWindow) =>
        /\ ~HasRaised(analysis)
        /\ \A i \in 1..3 : IsNaN(Bands[i])

\* C7 amended: for all series of length 1 to 19, analyze_data does not raise
\* and bb_upper, bb_middle and bb_lower are all undefined; on the empty series
\* it raises IndexError.
BandsUndefinedOnShortSeries ==
    /\ (engine = "analysis" /\ Bars >= 1 /\ Bars < BollingerWindow) =>
          /\ ~HasRaised(analysis)
          /\ \A i \in 1..3 : IsNaN(Bands[i])
    /\ (engine = "analysis" /\ Bars = 0) => analysis = Raised("IndexError")

NineteenBarsNoBands ==
    /\ engine = "analysis"
    /\ Bars = BollingerWindow - 1
    /\ ~HasRaised(analysis)
    /\ IsNaN(analysis.bb_upper)

\* C8 as stated: for a constant close series of any non-empty length,
\* volatility == 0, macd == 0, rsi is undefined and
\* bb_upper == bb_middle == bb_lower.
ConstantSeriesAnyLength ==
    (engine = "analysis" /\ ConstantClose) =>
        /\ ~HasRaised(analysis)
        /\ FloatEq(analysis.volatility, Zero)
        /\ FloatEq(analysis.macd, Zero)
        /\ IsNaN(analysis.rsi)
        /\ FloatEq(analysis.bb_upper, analysis.bb_middle)
        /\ FloatEq(analysis.bb_middle, analysis.bb_lower)

\* C8 amended: for a constant close series of n >= 1 bars, macd == 0 and rsi
\* is undefined; volatility == 0 when n >= 3 and is undefined when n <= 2;
\* bb_upper == bb_middle == bb_lower when n >= 20 and all three are undefined
\* when n < 20.
ConstantSeries ==
    (engine = "analysis" /\ ConstantClose) =>
        /\ ~HasRaised(analysis)
        /\ FloatEq(analysis.macd, Zero)
        /\ IsNaN(analysis.rsi)
        /\ IF Bars >= 3 THEN FloatEq(analysis.volatility, Zero)
                        ELSE IsNaN(analysis.volatility)
        /\ IF Bars >= BollingerWindow
           THEN /\ FloatEq(analysis.bb_upper, analysis.bb_middle)
                /\ FloatEq(analysis.bb_middle, analysis.bb_lower)
           ELSE \A i \in 1..3 : IsNaN(Bands[i])

ConstantTwoBarsNoVolatility ==
    /\ engine = "analysis"
    /\ ConstantClose
    /\ Bars = 2
    /\ IsNaN(analysis.volatility)
    /\ FloatEq(analysis.macd, Zero)

\* C9: for every series of at least two bars with strictly increasing
\* positive closes, trend == "Upward" and price_change_pct > 0.
IncreasingIsUpward ==
    (engine = "analysis" /\ IncreasingClose) =>
        /\ ~HasRaised(analysis)
        /\ analysis.trend = "Upward"
        /\ FLt(DblZero, analysis.price_change_pct)

IncreasingSeriesAnalysed ==
    /\ engine = "analysis"
    /\ IncreasingClose
    /\ analysis.trend = "Upward"
    /\ FLt(DblZero, analysis.price_change_pct)

\* b^n as a big natural
BigPower(b, n) == Powers(b, n + 1)[n + 1]

\* On closes rising by 1 a bar, the recursion e[0] = close[0], e[i] =
\* a*close[i] + (1-a)*e[i-1] with a = 2/(span+1) trails the close after n
\* steps by (span-1)/2 * (1 - ((span-1)/(span+1))^n).  Twice that lag, times
\* (span+1)^n * (other+1)^n:
TwiceLag(span, other, n) ==
    SMulS(SMul(SSub(SBig(1, BigPower(span + 1, n)), SBig(1, BigPower(span - 1, n))),
               SBig(1, BigPower(other + 1, n))),
          span - 1)

\* the double next above the whole number c > 0
NextAbove(c) ==
    [DblOf(c) EXCEPT !.m = Norm([i \in 1..(Len(DblOf(c).m) + 1) |->
                                    Limb(DblOf(c).m, i) + (IF i = 1 THEN 1 ELSE 0)])]

LinearAnalysed == engine = "analysis" /\ data = LinearFrame

\* macd > 0 and macd is what the recursive averages of spans 12 and 26 give
\* after 59 steps: the lag of the slow one minus the lag of the fast one
LinearMacd ==
    /\ analysis.macd.k = "scaled"
    /\ analysis.macd.s = 1
    /\ analysis.macd.b = MacdBase
    /\ analysis.macd.e = Bars - 1
    /\ SMulS(SBig(1, analysis.macd.m), 2)
          = SSub(TwiceLag(MacdSlowSpan, MacdFastSpan, Bars - 1),
                 TwiceLag(MacdFastSpan, MacdSlowSpan, Bars - 1))

\* C14 as stated: for the 60 daily closes 100, 101, ..., 159, analyze_data
\* returns trend == "Upward", price_change == 59, price_change_pct == 59 and
\* macd > 0, macd being the last value of EMA(12) minus EMA(26) of the
\* recursive definition seeded with the first close.
LinearScenarioExact ==
    LinearAnalysed =>
        /\ ~HasRaised(analysis)
        /\ analysis.trend = "Upward"
        /\ analysis.price_change = Rat(59, 1)
        /\ analysis.price_change_pct = DblOf(59)
        /\ LinearMacd

\* C14, amended: the same with price_change_pct == 59.00000000000001, the
\* double next above 59 (so approximately 59, and not == 59).
LinearScenarioRounded ==
    LinearAnalysed =>
        /\ ~HasRaised(analysis)
        /\ analysis.trend = "Upward"
        /\ analysis.price_change = Rat(59, 1)
        /\ analysis.price_change_pct = NextAbove(59)
        /\ LinearMacd

\* the sixty closes analysed, with a change in percent just above 59
LinearScenarioAnalysed ==
    /\ LinearAnalysed
    /\ Bars = 60
    /\ data.Close[1] = 100
    /\ data.Close[60] = 159
    /\ FLt(DblOf(59), analysis.price_change_pct)
    /\ FLt(analysis.price_change_pct, DblOf(60))

(***************************************************************************)
(* Properties of the rankings (checked under SpecRank)                     *)
(***************************************************************************)
Ranked == rankings /= NoResult /\ ~HasRaised(rankings)

InsertionIndex(symbol) == CHOOSE i \in 1..Len(stocks_data) : stocks_data[i].symbol = symbol

\* the metric of a symbol, from the columns of its frame
MetricOf(name, symbol) ==
    LET frame == DataOf(stocks_data, symbol)
    IN  CASE name = "return" -> PriceChangePct(frame.Close)
          [] name = "volume" -> Mean(frame.Volume)
          [] name = "momentum" -> Rsi(frame.Close)

IsPermutation(r) ==
    /\ Len(r) = Len(stocks_data)
    /\ \A i \in 1..Len(stocks_data) : \E j \in 1..Len(r) : r[j] = stocks_data[i].symbol

\* no symbol stands behind a symbol with a strictly smaller value
NonIncreasing(name, r) ==
    \A i, j \in 1..Len(r) : i < j => ~FLt(MetricOf(name, r[i]), MetricOf(name, r[j]))

\* symbols with equal values stand in insertion order
TiesInInsertionOrder(name, r) ==
    \A i, j \in 1..Len(r) :
        (i < j /\ FloatEq(MetricOf(name, r[i]), MetricOf(name, r[j])))
            => InsertionIndex(r[i]) < InsertionIndex(r[j])

\* C1: each of the rankings return, volume and momentum lists the symbols by
\* non-increasing price_change_pct, avg_volume and rsi respectively, and
\* symbols with equal values keep the order of their insertion into
\* stocks_data.
RankingsSortedAndStable ==
    Ranked =>
        \A name \in {"return", "volume", "momentum"} :
            /\ IsPermutation(rankings[name])
            /\ NonIncreasing(name, rankings[name])
            /\ TiesInInsertionOrder(name, rankings[name])

(***************************************************************************)
(* Properties of the correlation matrix (checked under SpecRank)           *)
(***************************************************************************)
Correlated == correlations /= NoResult

Compared == {stocks_data[i].symbol : i \in 1..Len(stocks_data)}

\* equal as Python floats, or both undefined
SameOrBothUndefined(x, y) == (IsNaN(x) /\ IsNaN(y)) \/ FloatEq(x, y)

\* the dates of a symbol's bars
DatesOf(symbol) ==
    LET frame == DataOf(stocks_data, symbol)
    IN  {frame.Index[i] : i \in 1..Len(frame.Index)}

\* the dates of the symbol inserted first
FirstDates == DatesOf(stocks_data[1].symbol)

\* the close of a symbol on a date
CloseOn(symbol, date) ==
    LET frame == DataOf(stocks_data, symbol)
    IN  frame.Close[CHOOSE i \in 1..Len(frame.Index) : frame.Index[i] = date]

\* the close prices of the symbol take two different values
CloseVaries(symbol) ==
    LET close == DataOf(stocks_data, symbol).Close
    IN  \E i, j \in 1..Len(close) : close[i] /= close[j]

\* the same, among the bars dated within the first symbol's dates
CloseVariesOnFirstDates(symbol) ==
    \E d, e \in DatesOf(symbol) \cap FirstDates : CloseOn(symbol, d) /= CloseOn(symbol, e)

\* C11 as stated: the correlation matrix is symmetric (corr[a][b] ==
\* corr[b][a] for every pair of symbols) and corr[a][a] == 1.0 for every
\* symbol whose close prices have nonzero variance.
CorrelationSymmetricUnitDiagonal ==
    Correlated =>
        /\ \A a, b \in Compared : FloatEq(correlations[a][b], correlations[b][a])
        /\ \A a \in Compared : CloseVaries(a) => FloatEq(correlations[a][a], One)

\* C11, amended: corr[a][b] and corr[b][a] are equal or both undefined, and
\* corr[a][a] == 1.0 for every symbol whose close prices on the dates it
\* shares with the first symbol have nonzero variance.
CorrelationSymmetricOnSharedDates ==
    Correlated =>
        /\ \A a, b \in Compared :
              SameOrBothUndefined(correlations[a][b], correlations[b][a])
        /\ \A a \in Compared :
              CloseVariesOnFirstDates(a) => FloatEq(correlations[a][a], One)

\* a matrix with a unit diagonal entry, a defined entry off the diagonal, and
\* an undefined diagonal entry of a symbol whose close prices vary
UnitAndUndefinedDiagonal ==
    /\ Correlated
    /\ \E a, b, c \in Compared :
          /\ a /= b
          /\ correlations[a][a] = One
          /\ IsFinite(correlations[a][b])
          /\ correlations[a][b] /= One
          /\ CloseVaries(c)
          /\ IsNaN(correlations[c][c])

\* the dates all three have: the first symbol and the two of the pair
SharedDates(a, b) == FirstDates \cap DatesOf(a) \cap DatesOf(b)

\* the closes of a symbol on a set of dates, in the order of the dates
ClosesOn(symbol, dates) ==
    [r \in 1..Cardinality(dates) |->
        Rat(CloseOn(symbol, CHOOSE d \in dates : Cardinality({e \in dates : e < d}) = r - 1), 1)]

SameLength(a, b) ==
    Len(DataOf(stocks_data, a).Close) = Len(DataOf(stocks_data, b).Close)

\* C12 as stated: the close prices of two symbols are paired by position and
\* not by date: two symbols with close sequences of equal length are
\* correlated over all their positions, whatever their date labels.
CorrelationPairsByPosition ==
    Correlated =>
        \A a, b \in Compared :
            SameLength(a, b) =>
                SameOrBothUndefined(correlations[a][b],
                                    PearsonOf(Col(DataOf(stocks_data, a).Close),
                                              Col(DataOf(stocks_data, b).Close)))

\* C12, amended: the close prices of two symbols are paired by the bars'
\* dates: the correlation is Pearson's r over the dates that the first
\* symbol and both symbols of the pair have, and undefined when there are
\* none, also for sequences of equal length.
CorrelationPairsByDate ==
    Correlated =>
        \A a, b \in Compared :
            /\ SameOrBothUndefined(correlations[a][b],
                                   PearsonOf(ClosesOn(a, SharedDates(a, b)),
                                             ClosesOn(b, SharedDates(a, b))))
            /\ SharedDates(a, b) = {} => IsNaN(correlations[a][b])

\* two symbols of equal length whose closes vary, without a date in common
EqualLengthNoCommonDate ==
    /\ Correlated
    /\ \E a, b \in Compared :
          /\ SameLength(a, b)
          /\ CloseVaries(a)
          /\ CloseVaries(b)
          /\ DatesOf(a) \cap DatesOf(b) = {}
          /\ IsNaN(correlations[a][b])

(***************************************************************************)
(* Properties of the insight cache (checked under SpecCache).  They speak  *)
(* of one call: the step that takes insight_calls to insight_calls + 1,    *)
(* with the arguments in request' and the files before the call in cache.  *)
(***************************************************************************)
IsCall == insight_calls' = insight_calls + 1

CalledName == CacheFile(request'.symbol, request'.timeframe)

HoldsRecord(file) == file /= NoFile /\ file /= Truncated

\* a record is stored under the key whose analysis and news compare equal to
\* the given ones (==: the same keys, every float equal to its counterpart and
\* therefore no NaN among them, every string equal)
StoredMatches ==
    /\ HoldsRecord(cache[CalledName])
    /\ LET stored == JsonLoad(cache[CalledName])
           given == request'.analysis
       IN  /\ DOMAIN stored.analysis = DOMAIN given
           /\ \A key \in DOMAIN given :
                 IF key \in TextKeys THEN stored.analysis[key] = given[key]
                 ELSE FloatEq(stored.analysis[key], given[key])
           /\ stored.news = request'.news

\* the call returned the stored insights, called no provider, wrote no file
ServedFromCache ==
    /\ HoldsRecord(cache[CalledName])
    /\ returned' = [insights |-> JsonLoad(cache[CalledName]).insights]
    /\ provider_calls' = provider_calls
    /\ cache' = cache

ProviderCalled == provider_calls' = provider_calls + 1

\* the record under the key now holds the given analysis, the given news and
\* the insights the call returned
RecordRewritten ==
    /\ ~HasRaised(returned')
    /\ HoldsRecord(cache'[CalledName])
    /\ JsonLoad(cache'[CalledName]) =
          [analysis |-> request'.analysis, news |-> request'.news,
           insights |-> returned'.insights]

\* C3 as stated: generate_insights returns the stored insights without calling
\* the provider and without writing the cache if and only if a record exists
\* under {symbol}_{timeframe} whose analysis and news equal the given ones; in
\* every other case the provider is called and the record for that key is
\* overwritten with the new analysis, news and insights.
HitElseRecordOverwritten ==
    [][IsCall =>
          /\ ServedFromCache <=> StoredMatches
          /\ ~StoredMatches => (ProviderCalled /\ RecordRewritten)]_vars

\* C3, amended: the hit is as stated; in every other case the provider is
\* called once, and the record for that key is overwritten when the provider
\* returns, while the cache is left as it was when the provider raises.
HitElseRecordOverwrittenOnReturn ==
    [][IsCall =>
          /\ ServedFromCache <=> StoredMatches
          /\ ~StoredMatches =>
                /\ ProviderCalled
                /\ IF HasRaised(returned') THEN cache' = cache ELSE RecordRewritten]_vars

\* a second call served from the record the first call wrote: the provider
\* was called once in two calls
SecondCallServedFromCache ==
    /\ insight_calls = 2
    /\ provider_calls = 1
    /\ returned = [insights |-> "Buy"]

\* the call ended in an error of the provider: its RuntimeError for a rate
\* limit, or the client library's error
ProviderFailed == HasRaised(returned') /\ returned' \in {Raised("RuntimeError"), Raised("APIError")}

\* C15: within one call of generate_insights the AI provider is invoked at
\* most once; when the provider fails, the failure is raised to the caller as
\* an error and the provider is not called again for that request.
ProviderCalledAtMostOnce ==
    [][IsCall =>
          /\ provider_calls' \in {provider_calls, provider_calls + 1}
          /\ HasRaised(returned') => (ProviderFailed /\ ProviderCalled)]_vars

\* a first call in which the provider failed: one provider call, an error returned
FirstCallFailed ==
    /\ insight_calls = 1
    /\ provider_calls = 1
    /\ returned = Raised("RuntimeError")

\* the call that follows has the same four arguments as the one before, which
\* returned insights
SameCallAgain == IsCall /\ request /= NoResult /\ ~HasRaised(returned) /\ request' = request

\* C16: after a call generate_insights(symbol, analysis, timeframe, news) has
\* returned, an immediately following call with the same four arguments is a
\* cache hit (the same insights, no provider call), for every bundle
\* analyze_data can return, bundles with undefined (NaN) fields included.
RepeatedCallIsHit ==
    [][SameCallAgain => (returned' = returned /\ provider_calls' = provider_calls)]_vars

\* C17: if the AI provider call inside generate_insights fails, the cache is
\* left unchanged: the record under {symbol}_{timeframe} (or its absence) and
\* the records under all other keys are after the call what they were before.
FailedCallLeavesCache ==
    [][(IsCall /\ HasRaised(returned')) =>
          (ProviderCalled /\ \A name \in DOMAIN cache : cache'[name] = cache[name])]_vars

\* a second call that missed the record of the first under the same key and
\* failed at the provider: the record is still there
RecordKeptAfterFailure ==
    /\ insight_calls = 2
    /\ provider_calls = 2
    /\ HasRaised(returned)
    /\ HoldsRecord(cache[CacheFile(request.symbol, request.timeframe)])

(***************************************************************************)
(* Properties of a run of main (checked under Spec)                        *)
(***************************************************************************)
LoopSteps == {"fetch", "analyze", "insights"}

\* step j of the run is a fetch, an analysis or an insight generation that failed
FailedAt(j) == events[j].step \in LoopSteps /\ ~events[j].ok

NothingCompared ==
    /\ performance = NoResult
    /\ correlations = NoResult
    /\ rankings = NoResult
    /\ \A j \in 1..Len(events) : events[j].step /= "compare"

\* the symbol at place i of the command line has its insights
InsightsDone(i) ==
    \E j \in 1..Len(events) :
        events[j].step = "insights" /\ events[j].position = i /\ events[j].ok

\* C10: in a run over several symbols, a failure of the fetch, the analysis or
\* the insight generation of any symbol is the last step of the run (no later
\* symbol is fetched or analysed), nothing is compared, and the run has ended
\* with exit status 1; and the comparison is reached only after every symbol of
\* the list has its insights.
FailureEndsTheBatch ==
    mode = "multiple" =>
        /\ \A j \in 1..Len(events) :
              FailedAt(j) =>
                  /\ j = Len(events)
                  /\ NothingCompared
                  /\ pc = "exited"
                  /\ exit_status = 1
        /\ (pc = "compare" \/ ~NothingCompared) =>
              \A i \in 1..Len(args.symbols) : InsightsDone(i)

\* a run over several symbols in which the first went through and the fetch of
\* the second failed
SecondSymbolFetchFailed ==
    /\ mode = "multiple"
    /\ Len(events) > 0
    /\ events[Len(events)] =
          [step |-> "fetch", symbol |-> args.symbols[2], position |-> 2, ok |-> FALSE]
    /\ InsightsDone(1)
    /\ exit_status = 1

\* the data source answered the last fetch with a series of no bars
EmptyDownload == download /= NoResult /\ ~HasRaised(download) /\ Len(download.Close) = 0

\* C13: a series with zero bars is rejected with an error before any
\* indicator is computed: in single-symbol and in multi-symbol runs, an empty
\* download ends the run at the fetch with exit status 1, and no frame that
\* is handed to analyze_data (by the loop or by the comparison) is empty.
EmptySeriesNeverAnalysed ==
    /\ EmptyDownload =>
          /\ pc = "exited"
          /\ exit_status = 1
          /\ events[Len(events)].step = "fetch"
          /\ ~events[Len(events)].ok
    /\ (pc = "analyze" \/ engine = "analysis") => Len(data.Close) > 0
    /\ \A i \in 1..Len(stocks_data) : Len(stocks_data[i].data.Close) > 0
    /\ \A j \in 1..Len(events) : events[j].step = "analyze" => events[j].ok

\* the download for the second symbol was empty, after the first was analysed
SecondDownloadEmpty ==
    /\ EmptyDownload
    /\ position = 2
    /\ engine = "analysis"
    /\ InsightsDone(1)

\* step j of the run belongs to the work on one symbol
SymbolStep(j) == events[j].step \in {"fetch", "analyze", "news", "insights"}

\* the places in events of the steps of one kind, and the k-th of them
StepsOf(step) == {j \in 1..Len(events) : events[j].step = step}

Nth(S, k) == CHOOSE j \in S : Cardinality({i \in S : i < j}) = k - 1

\* the symbol at place i of the command line went through the step
StepDone(step, i) ==
    \E j \in 1..Len(events) :
        events[j] = [step |-> step, symbol |-> args.symbols[i], position |-> i, ok |-> TRUE]

====
